---- MODULE Spec2Model ----
(***************************************************************************)
(* A model of riegeli's PositionShiftingReader (a Reader decorator that    *)
(* shifts positions by base_pos) over an inner Reader, of                 *)
(* NullBackwardWriter (a BackwardWriter that discards what is written),    *)
(* and of ByteFill (a run of equal bytes, presented as blocks).            *)
(*                                                                         *)
(* Pointers are integers; 0 is nullptr.  The byte of the inner reader's    *)
(* data at position i lives at address src.addr + i, so a pointer names    *)
(* the byte it points at.  Positions are narrowed to 0..PosMax.            *)
(***************************************************************************)
EXTENDS Integers, Sequences, FiniteSets, TLC

\* std::numeric_limits<Position>::max(), narrowed.
PosMax == 7
\* Largest length of the inner reader's content.
MaxContent == 3
\* Largest length passed to Pull, Read, Push and the writes into the buffer.
MaxLen == 2
\* Largest buffer length the buffer sizer proposes.
MaxBuf == 3
\* kMaxBytesToCopy, narrowed: longer writes take the slow path.
kMaxBytesToCopy == 2

\* SmallBlock::kSize: the capacity of the inline block
kSize == 2
\* ByteFill::kBlockOfZerosSize: the length of the array of zeros, and of the
\* longest block
kBlockOfZerosSize == 3
\* std::numeric_limits<size_t>::max(), here narrower than Position
SizeMax == 3

VARIABLES
  sut,        \* the object under test: "reader", "writer" or "bytefill"
  content,    \* the inner reader's data, a sequence of bytes
  src,        \* the inner Reader (SrcReader())
  psr,        \* the PositionShiftingReader
  owning,     \* src_.is_owning()
  stable,     \* src_.kIsStable
  last,       \* the last call made on the object under test, and its result
  hist,       \* whether only successful reads ran so far, and what they delivered
  srcCloses,  \* how often the wrapper called Close() on the inner reader
  nbw,        \* the NullBackwardWriter
  buffer_,    \* NullBackwardWriter::buffer_ (the scratch Buffer)
  run,        \* NullBackwardWriter::buffer_sizer_ (the run it tracks)
  src_caps,   \* what the inner reader answers to each capability query
  byte_fill,  \* the ByteFill
  blocks,     \* the ByteFill::Blocks that blocks() returned
  iter,       \* a BlockIterator over blocks: its block_index_complement_
  dest,       \* the bytes of the blocks visited so far, begin() first
  sink,       \* AbslStringify: its local `length` and the Append calls so far
  that,       \* the Blocks that was moved from
  ref,        \* the BlockRef that the last call returned, if it returned one
  cmp         \* what the last call returned, if it compared two iterators

vars == <<sut, content, src, psr, owning, stable, last, hist, srcCloses,
          nbw, buffer_, run, src_caps, byte_fill, blocks, iter, dest,
          sink, that, ref, cmp>>
readerVars == <<content, src, psr, owning, stable, hist, srcCloses>>
writerVars == <<nbw, buffer_, run>>
fillVars == <<byte_fill, blocks, iter, dest, sink, that, ref, cmp>>

Min(a, b) == IF a <= b THEN a ELSE b
Max(a, b) == IF a >= b THEN a ELSE b

nullptr == 0

----------------------------------------------------------------------------
(* Object: the status every stream carries.                                *)

OkStatus == [code |-> "ok", over_src |-> FALSE]
Status(c) == [code |-> c, over_src |-> FALSE]

\* Object::ok(): open and not failed.
ok(o) == o.open /\ o.status = OkStatus

\* Object::Fail / FailWithoutAnnotation: the first failure is kept.
FailWithoutAnnotation(o, st) ==
  IF o.status = OkStatus THEN [o EXCEPT !.status = st] ELSE o

\* Reader::FailOverflow(): "Reader position overflow".
FailOverflow(o) == FailWithoutAnnotation(o, Status("overflow"))

\* PositionShiftingReaderBase::AnnotateOverSrc: the inner status, annotated.
AnnotateOverSrc(st) == [st EXCEPT !.over_src = TRUE]

----------------------------------------------------------------------------
(* Reader: the buffer window and the position of its limit.                *)

available(r) == r.limit - r.cursor
pos(r) == r.limit_pos - available(r)
start_pos(r) == r.limit_pos - (r.limit - r.start)

\* Reader::set_buffer(start, size): cursor at start.
set_buffer(r, p, size) ==
  [r EXCEPT !.start = p, !.cursor = p, !.limit = p + size]

\* Reader::Done(): the position is kept, the buffer is dropped.
ReaderDone(r) ==
  [r EXCEPT !.limit_pos = pos(r), !.start = nullptr, !.cursor = nullptr,
            !.limit = nullptr]

----------------------------------------------------------------------------
(* The inner reader: a Reader over `content` with random access.           *)

AddrA == PosMax + 2
AddrB == 2 * PosMax + 4

\* The i-th byte of the data: pairwise different bytes.
ByteAt(i) == 96 + i
Content(n) == [i \in 1..n |-> ByteAt(i)]

\* What a read through pointer p yields: the data, or 0 outside of it.
Mem(p) ==
  IF p - src.addr + 1 \in 1..Len(content) THEN content[p - src.addr + 1] ELSE 0

\* The bytes at positions from+1 .. from+n of the inner reader's data.
SrcBytes(from, n) ==
  [i \in 1..n |-> IF from + i \in 1..Len(content) THEN content[from + i] ELSE 0]

\* A new inner reader at position 0: with everything in its buffer (a reader
\* of a string) or with an empty buffer (a reader of a file).
NewSrc(n, eager, failed, addr) ==
  [start |-> addr, cursor |-> addr,
   limit |-> IF eager THEN addr + n ELSE addr,
   limit_pos |-> IF eager THEN n ELSE 0,
   status |-> IF failed THEN Status("io") ELSE OkStatus,
   open |-> TRUE, addr |-> addr]

\* The buffer becomes the data of positions p .. lim, nothing of it read.
Refill(s, p, lim) ==
  [s EXCEPT !.start = s.addr + p, !.cursor = s.addr + p,
            !.limit = s.addr + lim, !.limit_pos = lim]

\* Reader::Pull(min_length) of the inner reader: the outcomes.
SrcPull(s, min_length) ==
  IF available(s) >= min_length THEN {[s |-> s, ret |-> TRUE]}
  ELSE IF ~ok(s) THEN {[s |-> s, ret |-> FALSE]}
  ELSE LET p == pos(s)
           n == Len(content)
       IN  {[s |-> Refill(s, p, lim), ret |-> TRUE] :
              lim \in {l \in {p + min_length, n} : l >= p + min_length /\ l <= n}}
           \cup (IF n - p < min_length
                 THEN {[s |-> Refill(s, p, n), ret |-> FALSE]} ELSE {})
           \cup {[s |-> FailWithoutAnnotation(s, Status("io")), ret |-> FALSE]}

\* Reader::Read(length, dest) of the inner reader: the outcomes, with the
\* bytes it delivered.
SrcRead(s, length) ==
  IF available(s) >= length
  THEN {[s |-> [s EXCEPT !.cursor = s.cursor + length], ret |-> TRUE,
         bytes |-> SrcBytes(pos(s), length)]}
  ELSE IF ~ok(s)
  THEN {[s |-> [s EXCEPT !.cursor = s.limit], ret |-> FALSE,
         bytes |-> SrcBytes(pos(s), available(s))]}
  ELSE LET p == pos(s)
           n == Len(content)
       IN  (IF n - p >= length
            THEN {[s |-> Refill(s, p + length, lim), ret |-> TRUE,
                   bytes |-> SrcBytes(p, length)] : lim \in {p + length, n}}
            ELSE {[s |-> Refill(s, n, n), ret |-> FALSE,
                   bytes |-> SrcBytes(p, n - p)]})
           \cup {[s |-> FailWithoutAnnotation([s EXCEPT !.cursor = s.limit],
                                              Status("io")),
                  ret |-> FALSE, bytes |-> SrcBytes(p, available(s))]}

\* Reader::Seek(new_pos) of the inner reader.
SrcSeek(s, new_pos) ==
  IF new_pos >= start_pos(s) /\ new_pos <= s.limit_pos
  THEN [s |-> [s EXCEPT !.cursor = s.limit - (s.limit_pos - new_pos)],
        ret |-> TRUE]
  ELSE IF ~ok(s) THEN [s |-> s, ret |-> FALSE]
  ELSE IF new_pos > Len(content)
  THEN [s |-> Refill(s, Len(content), Len(content)), ret |-> FALSE]
  ELSE [s |-> Refill(s, new_pos, new_pos), ret |-> TRUE]

\* Reader::Sync(sync_type) of the inner reader: it may drop what it read ahead.
SrcSync(s, sync_type) ==
  IF ~ok(s) THEN {[s |-> s, ret |-> FALSE]}
  ELSE {[s |-> s, ret |-> TRUE],
        [s |-> [s EXCEPT !.limit = s.cursor, !.limit_pos = pos(s)],
         ret |-> TRUE]}

\* Object::Close() of the inner reader; `fails`: closing the resource fails.
SrcClose(s, fails) ==
  IF ~s.open THEN [s |-> s, ret |-> s.status = OkStatus]
  ELSE LET d == [ReaderDone(s) EXCEPT !.open = FALSE]
           c == IF fails THEN FailWithoutAnnotation(d, Status("close")) ELSE d
       IN  [s |-> c, ret |-> c.status = OkStatus]

\* The inner reader moved to another address, its buffer with it.
Relocate(s) ==
  LET to == IF s.addr = AddrA THEN AddrB ELSE AddrA
      mv(p) == IF p = nullptr THEN nullptr ELSE p - s.addr + to
  IN  [s EXCEPT !.addr = to, !.start = mv(s.start), !.cursor = mv(s.cursor),
                !.limit = mv(s.limit)]

----------------------------------------------------------------------------
(* PositionShiftingReaderBase                                              *)

\* Sets cursor of src to cursor of *this.
SyncBuffer(p, s) == [s EXCEPT !.cursor = p.cursor]

\* MakeBuffer with the overflow check left out: the sum wraps.
MakeBuffer_NoOverflowCheck(p, s) ==
  LET q == [set_buffer(p, s.cursor, available(s))
              EXCEPT !.limit_pos = (s.limit_pos + p.base_pos) % (PosMax + 1)]
  IN  IF ~ok(s) THEN FailWithoutAnnotation(q, AnnotateOverSrc(s.status)) ELSE q

\* MakeBuffer importing src.limit_pos() as it is, base_pos not added.
MakeBuffer_NoShift(p, s) ==
  IF s.limit_pos > PosMax - p.base_pos
  THEN FailOverflow(p)
  ELSE LET q == [set_buffer(p, s.cursor, available(s))
                   EXCEPT !.limit_pos = s.limit_pos]
       IN  IF ~ok(s)
           THEN FailWithoutAnnotation(q, AnnotateOverSrc(s.status))
           ELSE q

\* MakeBuffer keeping src.start() as start(), with the cursor at src.cursor().
MakeBuffer_KeepStart(p, s) ==
  IF s.limit_pos > PosMax - p.base_pos
  THEN FailOverflow(p)
  ELSE LET q == [p EXCEPT !.start = s.start, !.cursor = s.cursor,
                          !.limit = s.limit,
                          !.limit_pos = (s.limit_pos + p.base_pos) % (PosMax + 1)]
       IN  IF ~ok(s)
           THEN FailWithoutAnnotation(q, AnnotateOverSrc(s.status))
           ELSE q

\* MakeBuffer not looking at the status of src.
MakeBuffer_IgnoresSrcStatus(p, s) ==
  IF s.limit_pos > PosMax - p.base_pos
  THEN FailOverflow(p)
  ELSE [set_buffer(p, s.cursor, available(s))
          EXCEPT !.limit_pos = (s.limit_pos + p.base_pos) % (PosMax + 1)]

\* Sets buffer pointers of *this to buffer pointers of src; fails *this if
\* src failed or the shifted position overflows.
MakeBuffer(p, s) ==
  IF s.limit_pos > PosMax - p.base_pos
  THEN FailOverflow(p)
  ELSE LET q == [set_buffer(p, s.cursor, available(s))
                   EXCEPT !.limit_pos = (s.limit_pos + p.base_pos) % (PosMax + 1)]
       IN  IF ~ok(s)
           THEN FailWithoutAnnotation(q, AnnotateOverSrc(s.status))
           ELSE q

\* Reader() followed by base_pos_(base_pos).
PositionShiftingReaderBase(base_pos) ==
  [start |-> nullptr, cursor |-> nullptr, limit |-> nullptr, limit_pos |-> 0,
   status |-> OkStatus, open |-> TRUE, base_pos |-> base_pos]

\* PositionShiftingReaderBase::Initialize(src)
Initialize(p, s) == MakeBuffer(p, s)

\* PositionShiftingReader(src, options)
PositionShiftingReader(s, base_pos) ==
  Initialize(PositionShiftingReaderBase(base_pos), s)

Called(op, arg, ret) ==
  [op |-> op, arg |-> arg, ret |-> ret, slow |-> FALSE, made |-> FALSE,
   err |-> "none", src_sync |-> "none"]

NoHist == [reads_only |-> FALSE, bytes |-> <<>>]

\* The capability queries of a Reader, as PositionShiftingReaderBase
\* declares them.
Capabilities ==
  {"ToleratesReadingAhead", "SupportsRandomAccess", "SupportsRewind",
   "SupportsSize", "SupportsNewReader"}

NoCaps == [c \in Capabilities |-> FALSE]

\* ByteFill(size, fill)
ByteFill(size, fill) == [size_ |-> size, fill_ |-> fill]

\* The alternatives of Blocks::block_.  A SmallBlock is memset to its fill
\* when it is made; a SharedBuffer is allocated and memset once.
ZeroBlock == [kind |-> "ZeroBlock", fill |-> 0, data |-> nullptr]
SmallBlock(fill) == [kind |-> "SmallBlock", fill |-> fill, data |-> nullptr]
SharedBuffer(fill, data) == [kind |-> "SharedBuffer", fill |-> fill, data |-> data]

\* Blocks(): no blocks; the variant holds its first alternative.  `at` is the
\* address of the Blocks object itself.
DefaultBlocks(at) ==
  [num_blocks_ |-> 0, non_last_block_size_ |-> 0, last_block_size_ |-> 0,
   data_ |-> nullptr, block_ |-> ZeroBlock, at |-> at]

\* BlockRef(blocks, block_index_complement), blocks given by its address
BlockRef(b, block_index_complement) ==
  [blocks_ |-> b.at, block_index_complement_ |-> block_index_complement]

\* No block was accessed, no iterators were compared.
NoRef == [blocks_ |-> nullptr, block_index_complement_ |-> 0]
NoCmp == [with |-> 0, eq |-> TRUE, less |-> FALSE, diff |-> 0]

\* No AbslStringify was called.
NoSink == [pc |-> "idle", length |-> 0, appends |-> <<>>]

InitFillIdle ==
  /\ byte_fill = ByteFill(0, 0)
  /\ blocks = DefaultBlocks(nullptr)
  /\ iter = 0
  /\ dest = <<>>
  /\ sink = NoSink
  /\ that = DefaultBlocks(nullptr)
  /\ ref = NoRef
  /\ cmp = NoCmp

InitWriterIdle ==
  /\ nbw = [start_pos |-> 0, start |-> nullptr, cursor |-> nullptr,
            limit |-> nullptr, status |-> OkStatus, open |-> TRUE]
  /\ buffer_ = [data |-> nullptr, capacity |-> 0]
  /\ run = [base_pos |-> 0, buffer_length_from_last_run |-> 0]

\* The reader under test, constructed over a new inner reader.
ConstructReader ==
  /\ sut = "reader"
  /\ \E n \in 0..MaxContent, eager \in BOOLEAN, failed \in BOOLEAN,
        b \in 0..PosMax :
       /\ content = Content(n)
       /\ src = NewSrc(n, eager, failed, AddrA)
       /\ psr = PositionShiftingReader(NewSrc(n, eager, failed, AddrA), b)
  /\ owning \in BOOLEAN
  /\ stable \in BOOLEAN
  /\ (~stable => owning)
  /\ last = [Called("Construct", 0, TRUE) EXCEPT !.made = TRUE]
  /\ hist = [reads_only |-> TRUE, bytes |-> <<>>]
  /\ srcCloses = 0
  /\ InitWriterIdle
  /\ InitFillIdle

InitReader ==
  /\ ConstructReader
  /\ src_caps = NoCaps

\* The reader under test over an inner reader of any capabilities.
InitQueries ==
  /\ ConstructReader
  /\ src_caps \in [Capabilities -> BOOLEAN]

----------------------------------------------------------------------------
(* The operations of PositionShiftingReader.  Each yields the set of its   *)
(* outcomes: the reader and the inner reader afterwards, and the result.   *)

Outcome(p, s, ret) ==
  [p |-> p, s |-> s, ret |-> ret, slow |-> TRUE, made |-> FALSE,
   err |-> "none", src_sync |-> "none", bytes |-> <<>>, closes |-> 0]

\* The outcome of a call that ends with MakeBuffer(src).
Imported(p, s, ret) == [Outcome(MakeBuffer(p, s), s, ret) EXCEPT !.made = TRUE]

\* PositionShiftingReaderBase::PullSlow
PullSlow(p, s, min_length) ==
  IF ~ok(p) THEN {Outcome(p, s, FALSE)}
  ELSE {Imported(p, o.s, o.ret) : o \in SrcPull(SyncBuffer(p, s), min_length)}

\* Reader::Pull
ReaderPull(p, s, min_length) ==
  IF available(p) >= min_length
  THEN {[Outcome(p, s, TRUE) EXCEPT !.slow = FALSE]}
  ELSE PullSlow(p, s, min_length)

\* PositionShiftingReaderBase::ReadSlow(length, dest)
ReadSlow(p, s, length) ==
  IF ~ok(p) THEN {Outcome(p, s, FALSE)}
  ELSE {[Imported(p, o.s, o.ret) EXCEPT !.bytes = o.bytes] :
          o \in SrcRead(SyncBuffer(p, s), length)}

\* Reader::Read(length, dest)
ReaderRead(p, s, length) ==
  IF available(p) >= length
  THEN {[Outcome([p EXCEPT !.cursor = p.cursor + length], s, TRUE)
           EXCEPT !.slow = FALSE,
                  !.bytes = [i \in 1..length |-> Mem(p.cursor + i - 1)]]}
  ELSE ReadSlow(p, s, length)

\* FailUnderflow marking the object as failed.
FailUnderflow_FailsObject(new_pos, object) ==
  FailWithoutAnnotation(object, Status("underflow"))

\* PositionShiftingReaderBase::FailUnderflow(new_pos, object): the seek is
\* refused, the object stays as it is.
FailUnderflow(new_pos, object) == object

\* PositionShiftingReaderBase::SeekSlow
SeekSlow(p, s, new_pos) ==
  IF ~ok(p) THEN Outcome(p, s, FALSE)
  ELSE IF new_pos < p.base_pos
  THEN [Outcome(FailUnderflow(new_pos, p), s, FALSE) EXCEPT !.err = "underflow"]
  ELSE LET o == SrcSeek(SyncBuffer(p, s), new_pos - p.base_pos)
       IN  Imported(p, o.s, o.ret)

\* Reader::Seek
ReaderSeek(p, s, new_pos) ==
  IF new_pos >= start_pos(p) /\ new_pos <= p.limit_pos
  THEN [Outcome([p EXCEPT !.cursor = p.limit - (p.limit_pos - new_pos)], s, TRUE)
          EXCEPT !.slow = FALSE]
  ELSE SeekSlow(p, s, new_pos)

SyncTypes == {"kFromObject", "kFromProcess", "kFromMachine"}

\* SyncImpl syncing the inner reader only if it is owned.
SyncImpl_OwnedOnly(p, s, sync_type, is_owning) ==
  IF ~ok(p) THEN {Outcome(p, s, FALSE)}
  ELSE LET s1 == SyncBuffer(p, s)
       IN  IF is_owning
           THEN {[Imported(p, o.s, o.ret) EXCEPT !.src_sync = sync_type] :
                   o \in SrcSync(s1, sync_type)}
           ELSE {Imported(p, s1, TRUE)}

\* PositionShiftingReader::SyncImpl
SyncImpl(p, s, sync_type, is_owning) ==
  IF ~ok(p) THEN {Outcome(p, s, FALSE)}
  ELSE LET s1 == SyncBuffer(p, s)
       IN  IF sync_type # "kFromObject" \/ is_owning
           THEN {[Imported(p, o.s, o.ret) EXCEPT !.src_sync = sync_type] :
                   o \in SrcSync(s1, sync_type)}
           ELSE {Imported(p, s1, TRUE)}

\* PositionShiftingReaderBase::Done: the cursor is written back to the inner
\* reader if *this is ok, then Reader::Done().
BaseDone(p, s) ==
  Outcome(ReaderDone(p), IF ok(p) THEN SyncBuffer(p, s) ELSE s, TRUE)

\* Done closing the inner reader whether it is owned or not.
Done_ClosesBorrowed(p, s, is_owning, src_close_fails) ==
  LET b == BaseDone(p, s)
      c == SrcClose(b.s, src_close_fails)
  IN  [Outcome(IF ~c.ret
               THEN FailWithoutAnnotation(b.p, AnnotateOverSrc(c.s.status))
               ELSE b.p,
               c.s, TRUE)
         EXCEPT !.closes = 1]

\* Done dropping the result of closing the inner reader.
Done_DropsCloseFailure(p, s, is_owning, src_close_fails) ==
  LET b == BaseDone(p, s)
  IN  IF is_owning
      THEN [Outcome(b.p, SrcClose(b.s, src_close_fails).s, TRUE)
              EXCEPT !.closes = 1]
      ELSE b

\* PositionShiftingReader::Done
Done(p, s, is_owning, src_close_fails) ==
  LET b == BaseDone(p, s)
  IN  IF is_owning
      THEN LET c == SrcClose(b.s, src_close_fails)
           IN  [Outcome(IF ~c.ret
                        THEN FailWithoutAnnotation(b.p, AnnotateOverSrc(c.s.status))
                        ELSE b.p,
                        c.s, TRUE)
                  EXCEPT !.closes = 1]
      ELSE b

\* Object::Close
ObjectClose(p, s, is_owning, src_close_fails) ==
  IF ~p.open
  THEN [Outcome(p, s, p.status = OkStatus) EXCEPT !.slow = FALSE]
  ELSE LET d == Done(p, s, is_owning, src_close_fails)
       IN  [d EXCEPT !.p = [d.p EXCEPT !.open = FALSE],
                     !.ret = (d.p.status = OkStatus)]

\* PositionShiftingReader::MoveSrc, after the base class moved the buffer
\* pointers
MoveSrc(p, s, kIsStable) ==
  IF kIsStable
  THEN [Outcome(p, s, TRUE) EXCEPT !.slow = FALSE]
  ELSE LET moved == Relocate(SyncBuffer(p, s))
       IN  Imported(p, moved, TRUE)

\* PositionShiftingReader::SetReadAllHintImpl
SetReadAllHintImpl(p, s, is_owning) ==
  IF is_owning
  THEN LET s1 == SyncBuffer(p, s) IN Imported(p, s1, TRUE)
  ELSE [Outcome(p, s, TRUE) EXCEPT !.slow = FALSE]

\* A capability query answering TRUE whatever the inner reader answers.
SupportsRandomAccess_Always(caps) == TRUE

\* The capability queries: each asks the inner reader.
ToleratesReadingAhead(caps) == caps["ToleratesReadingAhead"]
SupportsRandomAccess(caps) == caps["SupportsRandomAccess"]
SupportsRewind(caps) == caps["SupportsRewind"]
SupportsSize(caps) == caps["SupportsSize"]
SupportsNewReader(caps) == caps["SupportsNewReader"]

----------------------------------------------------------------------------
(* The actions on the reader.                                              *)

Apply(op, arg, o) ==
  /\ psr' = o.p
  /\ src' = o.s
  /\ srcCloses' = srcCloses + o.closes
  /\ last' = [op |-> op, arg |-> arg, ret |-> o.ret, slow |-> o.slow,
              made |-> o.made, err |-> o.err, src_sync |-> o.src_sync]
  /\ hist' = IF hist.reads_only /\ o.ret /\ op \in {"Read", "Pull"}
                /\ Len(hist.bytes) + Len(o.bytes) <= MaxContent + MaxLen
             THEN [hist EXCEPT !.bytes = hist.bytes \o o.bytes]
             ELSE NoHist
  /\ UNCHANGED <<sut, content, owning, stable, writerVars, src_caps, fillVars>>

Pull ==
  /\ sut = "reader"
  /\ \E min_length \in 1..MaxLen :
       \E o \in ReaderPull(psr, src, min_length) : Apply("Pull", min_length, o)

Read ==
  /\ sut = "reader"
  /\ \E length \in 1..MaxLen :
       \E o \in ReaderRead(psr, src, length) : Apply("Read", length, o)

Seek ==
  /\ sut = "reader"
  /\ \E new_pos \in 0..PosMax : Apply("Seek", new_pos, ReaderSeek(psr, src, new_pos))

Sync ==
  /\ sut = "reader"
  /\ \E sync_type \in SyncTypes :
       \E o \in SyncImpl(psr, src, sync_type, owning) : Apply("Sync", sync_type, o)

Close ==
  /\ sut = "reader"
  /\ \E src_close_fails \in BOOLEAN :
       Apply("Close", 0, ObjectClose(psr, src, owning, src_close_fails))

Move ==
  /\ sut = "reader"
  /\ psr.open
  /\ Apply("Move", 0, MoveSrc(psr, src, stable))

SetReadAllHint ==
  /\ sut = "reader"
  /\ psr.open
  /\ Apply("SetReadAllHint", 0, SetReadAllHintImpl(psr, src, owning))

NextReader ==
  \/ Pull
  \/ Read
  \/ Seek
  \/ Sync
  \/ Close
  \/ Move
  \/ SetReadAllHint

\* A capability query leaves the reader and the inner reader as they are.
Query(op, ret) ==
  /\ sut = "reader"
  /\ last' = Called(op, 0, ret)
  /\ UNCHANGED <<sut, readerVars, writerVars, src_caps, fillVars>>

QueryToleratesReadingAhead ==
  Query("ToleratesReadingAhead", ToleratesReadingAhead(src_caps))

QuerySupportsRandomAccess ==
  Query("SupportsRandomAccess", SupportsRandomAccess(src_caps))

QuerySupportsRewind == Query("SupportsRewind", SupportsRewind(src_caps))

QuerySupportsSize == Query("SupportsSize", SupportsSize(src_caps))

QuerySupportsNewReader ==
  Query("SupportsNewReader", SupportsNewReader(src_caps))

NextQueries ==
  \/ QueryToleratesReadingAhead
  \/ QuerySupportsRandomAccess
  \/ QuerySupportsRewind
  \/ QuerySupportsSize
  \/ QuerySupportsNewReader

----------------------------------------------------------------------------
(* BackwardWriter: the buffer is filled from start() down to limit().      *)

BW_available(w) == w.cursor - w.limit
BW_start_to_cursor(w) == w.start - w.cursor
BW_pos(w) == w.start_pos + BW_start_to_cursor(w)

\* BackwardWriter::set_buffer(limit, buffer_size): nothing written.
BW_set_buffer(w, limit, buffer_size) ==
  [w EXCEPT !.limit = limit, !.start = limit + buffer_size,
            !.cursor = limit + buffer_size]

\* Object::Fail with BackwardWriter::OnFail(): the first failure is kept and
\* the buffer is dropped, so that no fast path succeeds afterwards.
BW_Fail(w, st) ==
  IF w.status = OkStatus
  THEN [BW_set_buffer(w, nullptr, 0) EXCEPT !.status = st]
  ELSE w

\* BackwardWriter::FailOverflow(): "BackwardWriter position overflow".
BW_FailOverflow(w) == BW_Fail(w, Status("overflow"))

\* SaturatingAdd on size_t, whose maximum is narrowed like Position's.
SaturatingAdd(a, b) == Min(a + b, PosMax)

----------------------------------------------------------------------------
(* The collaborators of NullBackwardWriter: Buffer and WriteBufferSizer.   *)

BufAddr == PosMax + 2

\* Buffer::Reset(min_capacity): the buffer is kept if it is large enough,
\* else replaced by one of at least min_capacity bytes.
BufferReset(b, min_capacity) ==
  IF b.data # nullptr /\ b.capacity >= min_capacity THEN {b}
  ELSE {[data |-> BufAddr, capacity |-> c] :
          c \in {min_capacity, min_capacity + 1}}

\* WriteBufferSizer::BufferLength(pos, min_length, recommended_length): a
\* length of at least min_length and at least 1, chosen by the heuristic.
BufferLength(r, at, min_length, recommended_length) ==
  {l \in 1..Max(MaxBuf, min_length) : l >= min_length}

\* WriteBufferSizer::BeginRun(pos)
BeginRun(r, at) == [r EXCEPT !.base_pos = at]

\* WriteBufferSizer::EndRun(pos)
EndRun(r, at) ==
  IF at = r.base_pos THEN r
  ELSE [r EXCEPT !.buffer_length_from_last_run = at - r.base_pos]

----------------------------------------------------------------------------
(* NullBackwardWriter                                                      *)

WOutcome(w, b, r, ret) == [w |-> w, b |-> b, r |-> r, ret |-> ret, slow |-> TRUE]

\* SyncBuffer without set_start_pos(pos()): what the buffer holds is lost.
NBW_SyncBuffer_KeepsStartPos(w) == [w EXCEPT !.cursor = w.start]

\* NullBackwardWriter::SyncBuffer
NBW_SyncBuffer(w) ==
  LET w1 == [w EXCEPT !.start_pos = BW_pos(w)]
  IN  [w1 EXCEPT !.cursor = w1.start]

\* MakeBuffer failing already when min_length reaches max Position - pos().
NBW_MakeBuffer_OverflowAtEqual(w, b, r, min_length, recommended_length) ==
  IF min_length >= PosMax - BW_pos(w)
  THEN {WOutcome(BW_FailOverflow(w), b, r, FALSE)}
  ELSE UNION {{WOutcome(BW_set_buffer(w, nb.data,
                                      Min(Min(nb.capacity,
                                              SaturatingAdd(buffer_length,
                                                            buffer_length)),
                                          PosMax - w.start_pos)),
                        nb, r, TRUE) :
                 nb \in BufferReset(b, buffer_length)} :
              buffer_length \in BufferLength(r, w.start_pos, min_length,
                                              recommended_length)}

\* MakeBuffer bounding the buffer by the capacity and by twice the buffer
\* length, not by what is left up to the maximum of Position.
NBW_MakeBuffer_NoHeadroom(w, b, r, min_length, recommended_length) ==
  IF min_length > PosMax - BW_pos(w)
  THEN {WOutcome(BW_FailOverflow(w), b, r, FALSE)}
  ELSE UNION {{WOutcome(BW_set_buffer(w, nb.data,
                                      Min(nb.capacity,
                                          SaturatingAdd(buffer_length,
                                                        buffer_length))),
                        nb, r, TRUE) :
                 nb \in BufferReset(b, buffer_length)} :
              buffer_length \in BufferLength(r, w.start_pos, min_length,
                                              recommended_length)}

\* NullBackwardWriter::MakeBuffer(min_length, recommended_length)
NBW_MakeBuffer(w, b, r, min_length, recommended_length) ==
  IF min_length > PosMax - BW_pos(w)
  THEN {WOutcome(BW_FailOverflow(w), b, r, FALSE)}
  ELSE UNION {{WOutcome(BW_set_buffer(w, nb.data,
                                      Min(Min(nb.capacity,
                                              SaturatingAdd(buffer_length,
                                                            buffer_length)),
                                          PosMax - w.start_pos)),
                        nb, r, TRUE) :
                 nb \in BufferReset(b, buffer_length)} :
              buffer_length \in BufferLength(r, w.start_pos, min_length,
                                              recommended_length)}

\* PushSlow without SyncBuffer().
PushSlow_NoSyncBuffer(w, b, r, min_length, recommended_length) ==
  IF ~ok(w) THEN {WOutcome(w, b, r, FALSE)}
  ELSE NBW_MakeBuffer(w, b, r, min_length, recommended_length)

\* NullBackwardWriter::PushSlow
PushSlow(w, b, r, min_length, recommended_length) ==
  IF ~ok(w) THEN {WOutcome(w, b, r, FALSE)}
  ELSE NBW_MakeBuffer(NBW_SyncBuffer(w), b, r, min_length, recommended_length)

\* BackwardWriter::Push
WriterPush(w, b, r, min_length, recommended_length) ==
  IF BW_available(w) >= min_length
  THEN {[WOutcome(w, b, r, TRUE) EXCEPT !.slow = FALSE]}
  ELSE PushSlow(w, b, r, min_length, recommended_length)

\* NullBackwardWriter::WriteSlow(const Chain&), WriteSlow(const absl::Cord&)
WriteSlow(w, b, r, size) ==
  IF ~ok(w) THEN {WOutcome(w, b, r, FALSE)}
  ELSE IF size > PosMax - BW_pos(w)
  THEN {WOutcome(BW_FailOverflow(w), b, r, FALSE)}
  ELSE LET w1 == NBW_SyncBuffer(w)
       IN  NBW_MakeBuffer([w1 EXCEPT !.start_pos = w1.start_pos + size],
                          b, r, 0, 0)

\* NullBackwardWriter::WriteZerosSlow
WriteZerosSlow(w, b, r, length) ==
  IF ~ok(w) THEN {WOutcome(w, b, r, FALSE)}
  ELSE IF length > PosMax - BW_pos(w)
  THEN {WOutcome(BW_FailOverflow(w), b, r, FALSE)}
  ELSE LET w1 == NBW_SyncBuffer(w)
       IN  NBW_MakeBuffer([w1 EXCEPT !.start_pos = w1.start_pos + length],
                          b, r, 0, 0)

\* BackwardWriter::Write(const Chain&), Write(const absl::Cord&) and
\* WriteZeros(length): short data is copied into the buffer.
\* Otherwise the outcomes are those of the slow path.
WriterWrite(w, b, r, size, slow_path) ==
  IF size <= Min(BW_available(w), kMaxBytesToCopy)
  THEN {[WOutcome([w EXCEPT !.cursor = w.cursor - size], b, r, TRUE)
           EXCEPT !.slow = FALSE]}
  ELSE slow_path

\* TruncateImpl without set_start_pos(new_size) before the buffered region.
TruncateImpl_KeepsStartPos(w, b, r, new_size) ==
  IF ~ok(w) THEN WOutcome(w, b, r, FALSE)
  ELSE IF new_size >= w.start_pos
  THEN IF new_size > BW_pos(w) THEN WOutcome(w, b, r, FALSE)
       ELSE WOutcome([w EXCEPT !.cursor = w.start - (new_size - w.start_pos)],
                     b, r, TRUE)
  ELSE LET r1 == EndRun(r, BW_pos(w))
           w2 == [w EXCEPT !.cursor = w.start]
       IN  WOutcome(w2, b, BeginRun(r1, w2.start_pos), TRUE)

\* TruncateImpl ending the run only after start_pos moved to new_size.
TruncateImpl_EndsRunLate(w, b, r, new_size) ==
  IF ~ok(w) THEN WOutcome(w, b, r, FALSE)
  ELSE IF new_size >= w.start_pos
  THEN IF new_size > BW_pos(w) THEN WOutcome(w, b, r, FALSE)
       ELSE WOutcome([w EXCEPT !.cursor = w.start - (new_size - w.start_pos)],
                     b, r, TRUE)
  ELSE LET w1 == [w EXCEPT !.start_pos = new_size]
           w2 == [w1 EXCEPT !.cursor = w1.start]
           r1 == EndRun(r, BW_pos(w2))
       IN  WOutcome(w2, b, BeginRun(r1, w2.start_pos), TRUE)

\* TruncateImpl without the check of ok().
TruncateImpl_NoOkCheck(w, b, r, new_size) ==
  IF new_size >= w.start_pos
  THEN IF new_size > BW_pos(w) THEN WOutcome(w, b, r, FALSE)
       ELSE WOutcome([w EXCEPT !.cursor = w.start - (new_size - w.start_pos)],
                     b, r, TRUE)
  ELSE LET r1 == EndRun(r, BW_pos(w))
           w1 == [w EXCEPT !.start_pos = new_size]
           w2 == [w1 EXCEPT !.cursor = w1.start]
       IN  WOutcome(w2, b, BeginRun(r1, w2.start_pos), TRUE)

\* TruncateImpl failing the writer when new_size is beyond pos().
TruncateImpl_FailsBeyondPos(w, b, r, new_size) ==
  IF ~ok(w) THEN WOutcome(w, b, r, FALSE)
  ELSE IF new_size >= w.start_pos
  THEN IF new_size > BW_pos(w) THEN WOutcome(BW_FailOverflow(w), b, r, FALSE)
       ELSE WOutcome([w EXCEPT !.cursor = w.start - (new_size - w.start_pos)],
                     b, r, TRUE)
  ELSE LET r1 == EndRun(r, BW_pos(w))
           w1 == [w EXCEPT !.start_pos = new_size]
           w2 == [w1 EXCEPT !.cursor = w1.start]
       IN  WOutcome(w2, b, BeginRun(r1, w2.start_pos), TRUE)

\* NullBackwardWriter::TruncateImpl
TruncateImpl(w, b, r, new_size) ==
  IF ~ok(w) THEN WOutcome(w, b, r, FALSE)
  ELSE IF new_size >= w.start_pos
  THEN IF new_size > BW_pos(w) THEN WOutcome(w, b, r, FALSE)
       ELSE WOutcome([w EXCEPT !.cursor = w.start - (new_size - w.start_pos)],
                     b, r, TRUE)
  ELSE LET r1 == EndRun(r, BW_pos(w))
           w1 == [w EXCEPT !.start_pos = new_size]
           w2 == [w1 EXCEPT !.cursor = w1.start]
       IN  WOutcome(w2, b, BeginRun(r1, w2.start_pos), TRUE)

\* NullBackwardWriter::Done: BackwardWriter::Done() keeps the position and
\* drops the buffer pointers, then the scratch buffer is released.
NBW_Done(w, b, r) ==
  WOutcome([BW_set_buffer(w, nullptr, 0) EXCEPT !.start_pos = BW_pos(w)],
           [data |-> nullptr, capacity |-> 0], r, TRUE)

\* Object::Close of the writer
WriterClose(w, b, r) ==
  IF ~w.open THEN [WOutcome(w, b, r, w.status = OkStatus) EXCEPT !.slow = FALSE]
  ELSE LET d == NBW_Done(w, b, r)
       IN  [d EXCEPT !.w = [d.w EXCEPT !.open = FALSE],
                     !.ret = (d.w.status = OkStatus)]

----------------------------------------------------------------------------
(* The actions on the writer.                                              *)

\* The lengths written: short, longer than kMaxBytesToCopy, and huge.
WriteLengths == {1, kMaxBytesToCopy + 1, PosMax}

WApply(op, arg, o) ==
  /\ nbw' = o.w
  /\ buffer_' = o.b
  /\ run' = o.r
  /\ last' = [Called(op, arg, o.ret) EXCEPT !.slow = o.slow]
  /\ UNCHANGED <<sut, readerVars, src_caps, fillVars>>

Push ==
  /\ sut = "writer"
  /\ \E min_length \in 1..MaxLen :
       \E o \in WriterPush(nbw, buffer_, run, min_length, 0) :
         WApply("Push", min_length, o)

\* Bytes written into the buffer that Push made available.
Fill ==
  /\ sut = "writer"
  /\ \E n \in 1..MaxLen :
       /\ n <= BW_available(nbw)
       /\ WApply("Fill", n,
                 [WOutcome([nbw EXCEPT !.cursor = nbw.cursor - n], buffer_, run, TRUE)
                    EXCEPT !.slow = FALSE])

WriteChain ==
  /\ sut = "writer"
  /\ \E size \in WriteLengths :
       \E o \in WriterWrite(nbw, buffer_, run, size,
                             WriteSlow(nbw, buffer_, run, size)) :
         WApply("WriteChain", size, o)

WriteCord ==
  /\ sut = "writer"
  /\ \E size \in WriteLengths :
       \E o \in WriterWrite(nbw, buffer_, run, size,
                             WriteSlow(nbw, buffer_, run, size)) :
         WApply("WriteCord", size, o)

WriteZeros ==
  /\ sut = "writer"
  /\ \E length \in WriteLengths :
       \E o \in WriterWrite(nbw, buffer_, run, length,
                             WriteZerosSlow(nbw, buffer_, run, length)) :
         WApply("WriteZeros", length, o)

Truncate ==
  /\ sut = "writer"
  /\ \E new_size \in 0..PosMax :
       WApply("Truncate", new_size, TruncateImpl(nbw, buffer_, run, new_size))

WClose ==
  /\ sut = "writer"
  /\ WApply("Close", 0, WriterClose(nbw, buffer_, run))

NextWriter ==
  \/ Push
  \/ Fill
  \/ WriteChain
  \/ WriteCord
  \/ WriteZeros
  \/ Truncate
  \/ WClose

InitReaderIdle ==
  /\ src_caps = NoCaps
  /\ content = <<>>
  /\ src = NewSrc(0, FALSE, FALSE, AddrA)
  /\ psr = PositionShiftingReader(NewSrc(0, FALSE, FALSE, AddrA), 0)
  /\ owning = FALSE
  /\ stable = TRUE
  /\ hist = NoHist
  /\ srcCloses = 0

\* NullBackwardWriter(): open, at position 0, with no buffer yet.
InitWriter ==
  /\ sut = "writer"
  /\ InitReaderIdle
  /\ InitWriterIdle
  /\ InitFillIdle
  /\ last = Called("Construct", 0, TRUE)

----------------------------------------------------------------------------
(* ByteFill: `size_` occurrences of the byte `fill_`, and the blocks that  *)
(* present them.                                                           *)

\* The fill bytes tried: '\0' and 'x'.
Fills == {0, 120}

\* What a read outside of every live array may yield.
AnyByte == Fills \cup {255}

\* Addresses: the array of zeros, the Blocks object that blocks() returns
\* (its SmallBlock lies at offset 1), and the array of a SharedBuffer.
ZerosAddr == 3 * PosMax + 6
BlocksAddr == 4 * PosMax + 8
HeapAddr == 5 * PosMax + 10

\* ByteFill::BlockOfZeros()
BlockOfZeros == ZerosAddr

\* SmallBlock::data() of the SmallBlock held by the Blocks object b
SmallBlock_data(b) == b.at + 1

\* The addresses of the array that the alternative held by b.block_ keeps
\* alive.
Backing(b) ==
  IF b.block_.kind = "ZeroBlock"
  THEN BlockOfZeros .. (BlockOfZeros + kBlockOfZerosSize - 1)
  ELSE IF b.block_.kind = "SmallBlock"
  THEN SmallBlock_data(b) .. (SmallBlock_data(b) + kSize - 1)
  ELSE b.block_.data .. (b.block_.data + kBlockOfZerosSize - 1)

\* ByteFill::Extract without the decrement of size_.
Extract_KeepsSize(bf, difference) ==
  {[bf |-> bf, ret |-> ByteFill(difference, bf.fill_), err |-> "none"]}

\* RIEGELI_ASSERT_LE(a, b): a build that checks assertions stops the program
\* if a > b; a build that does not goes on.
RIEGELI_ASSERT_LE(a, b) == IF a <= b THEN {"passed"} ELSE {"failed", "unchecked"}

\* ByteFill::Extract(difference): the outcomes.  size_ is a Position, so the
\* subtraction is modulo PosMax + 1.
Extract(bf, difference) ==
  {IF a = "failed"
   THEN [bf |-> bf, ret |-> ByteFill(0, bf.fill_), err |-> "assertion"]
   ELSE [bf |-> [bf EXCEPT !.size_ = (bf.size_ - difference) % (PosMax + 1)],
         ret |-> ByteFill(difference, bf.fill_), err |-> "none"] :
     a \in RIEGELI_ASSERT_LE(difference, bf.size_)}

\* Blocks(size, fill), constructed at address `at`: the backing is chosen once
\* (the array of zeros for a zero fill that is large enough, the inline block
\* for a size that fits it, a shared buffer otherwise), then the division into
\* blocks.  Whether a zero fill that fits the inline block is large enough is
\* left open, so both choices are outcomes.
Blocks(size, fill, at) ==
  IF size = 0 THEN {DefaultBlocks(at)}
  ELSE LET long(data, block) ==
             [num_blocks_ |-> (size - 1) \div kBlockOfZerosSize + 1,
              non_last_block_size_ |-> kBlockOfZerosSize,
              last_block_size_ |-> ((size - 1) % kBlockOfZerosSize) + 1,
              data_ |-> data, block_ |-> block, at |-> at]
           small ==
             [num_blocks_ |-> 1, non_last_block_size_ |-> size,
              last_block_size_ |-> size, data_ |-> at + 1,
              block_ |-> SmallBlock(fill), at |-> at]
       IN  IF fill = 0 /\ size > kSize THEN {long(BlockOfZeros, ZeroBlock)}
           ELSE IF fill = 0 THEN {long(BlockOfZeros, ZeroBlock), small}
           ELSE IF size <= kSize THEN {small}
           ELSE {long(HeapAddr, SharedBuffer(fill, HeapAddr))}

\* ByteFill::blocks()
ByteFill_blocks(bf, at) == Blocks(bf.size_, bf.fill_, at)

\* Blocks::size(): the number of blocks
Blocks_size(b) == b.num_blocks_

\* Blocks::size(block_index_complement) giving every block the size of the
\* non-last ones.
Blocks_block_size_AllNonLast(b, block_index_complement) ==
  b.non_last_block_size_

\* Blocks::size(block_index_complement): the size of one block
Blocks_block_size(b, block_index_complement) ==
  IF block_index_complement = 1
  THEN b.last_block_size_
  ELSE b.non_last_block_size_

\* Blocks::data()
Blocks_data(b) == b.data_

\* Blocks::begin() starting at the second block.
begin_AfterFirst(b) == IF b.num_blocks_ = 0 THEN 0 ELSE b.num_blocks_ - 1

\* Blocks::begin() and Blocks::end(): the block_index_complement_ of the
\* iterator.
begin(b) == b.num_blocks_
end(b) == 0

\* BlockRef::data() moving on by the sizes of the blocks before.
BlockRef_data_Advancing(b, block_index_complement) ==
  b.data_ + (b.num_blocks_ - block_index_complement) * b.non_last_block_size_

\* BlockRef::data() and BlockRef::size() of BlockRef(b, block_index_complement)
BlockRef_data(b, block_index_complement) == Blocks_data(b)
BlockRef_size(b, block_index_complement) ==
  Blocks_block_size(b, block_index_complement)

\* BlockRef::operator absl::string_view: what the bytes of the view may read
\* as.  A byte of the live array reads as the fill; outside of it, anything.
BlockRef_view(b, block_index_complement) ==
  LET data == BlockRef_data(b, block_index_complement)
      size == BlockRef_size(b, block_index_complement)
  IN  {v \in [1..size -> AnyByte] :
         \A i \in 1..size :
           (data + i - 1) \in Backing(b) => v[i] = b.block_.fill}

\* ExternalStorage(nullptr, no-op deleter): nothing is owned or released.
NoStorage == [ptr |-> nullptr, counted |-> FALSE]

\* RiegeliToExternalStorage(const ZeroBlock*) handing out the array as a
\* counted buffer.
RiegeliToExternalStorage_Counted == [ptr |-> BlockOfZeros, counted |-> TRUE]

\* RiegeliToExternalStorage(const ZeroBlock*)
RiegeliToExternalStorage == NoStorage

\* Blocks::ExternalDelegate: how the bytes `substr` of one block enter a Chain
\* or a Cord.  A ZeroBlock is referenced with no storage to release, a
\* SmallBlock is copied (RiegeliExternalCopy), a SharedBuffer is shared.
ExternalDelegate(b, block_index_complement, substr) ==
  IF b.block_.kind = "ZeroBlock"
  THEN [data |-> substr.data, size |-> substr.size, copied |-> FALSE,
        storage |-> RiegeliToExternalStorage]
  ELSE IF b.block_.kind = "SmallBlock"
  THEN [data |-> nullptr, size |-> substr.size, copied |-> TRUE,
        storage |-> NoStorage]
  ELSE [data |-> substr.data, size |-> substr.size, copied |-> FALSE,
        storage |-> [ptr |-> b.block_.data, counted |-> TRUE]]

\* ByteFill::operator Chain() and operator absl::Cord(): one entry per block,
\* each made by ExternalDelegate.
ByteFill_Convert(b) ==
  [i \in 1..Blocks_size(b) |->
     LET c == Blocks_size(b) - (i - 1)
     IN  ExternalDelegate(b, c, [data |-> BlockRef_data(b, c),
                                 size |-> BlockRef_size(b, c)])]

----------------------------------------------------------------------------
(* The actions on the ByteFill.                                            *)

\* What a call on the ByteFill hands back: a ByteFill (the one constructed,
\* extracted or presented as blocks) and, from a conversion, the Chain.
Returned(bf, chain) == [value |-> bf, chain |-> chain]

FApply(op, arg, ret, err) ==
  /\ last' = [Called(op, arg, ret) EXCEPT !.err = err]
  /\ UNCHANGED <<sut, readerVars, writerVars, src_caps>>

\* Once an assertion failed the program has stopped.
Running == sut = "bytefill" /\ last.err # "assertion"

ExtractFill ==
  /\ Running
  /\ \E difference \in 0..PosMax :
       \E o \in Extract(byte_fill, difference) :
         /\ byte_fill' = o.bf
         /\ FApply("Extract", difference, Returned(o.ret, <<>>), o.err)
  /\ UNCHANGED <<blocks, iter, dest, sink, that, ref, cmp>>

\* blocks(), and begin() of the result
CallBlocks ==
  /\ Running
  /\ \E b \in ByteFill_blocks(byte_fill, BlocksAddr) :
       /\ blocks' = b
       /\ iter' = begin(b)
  /\ dest' = <<>>
  /\ FApply("blocks", 0, Returned(byte_fill, <<>>), "none")
  /\ ref' = NoRef
  /\ cmp' = NoCmp
  /\ UNCHANGED <<byte_fill, sink, that>>

\* *iter is appended to dest, then ++iter.  Both assert that iter is not
\* end().
NextBlock ==
  /\ Running
  /\ last.op \in {"blocks", "Convert"}
  /\ iter # end(blocks)
  /\ \E v \in BlockRef_view(blocks, iter) : dest' = dest \o v
  /\ iter' = iter - 1
  /\ UNCHANGED <<byte_fill, blocks, sink, that, ref, cmp, last, sut,
                 readerVars, writerVars, src_caps>>

\* The blocks converted to a Chain or a Cord.
Convert ==
  /\ Running
  /\ last.op = "blocks"
  /\ FApply("Convert", 0,
            Returned(last.ret.value, ByteFill_Convert(blocks)), "none")
  /\ UNCHANGED fillVars

NextByteFill ==
  \/ ExtractFill
  \/ CallBlocks
  \/ NextBlock
  \/ Convert

InitByteFill ==
  /\ sut = "bytefill"
  /\ InitReaderIdle
  /\ InitWriterIdle
  /\ \E size \in 0..PosMax, fill \in Fills :
       /\ byte_fill = ByteFill(size, fill)
       /\ last = Called("ByteFill", size, Returned(ByteFill(size, fill), <<>>))
  /\ blocks = DefaultBlocks(nullptr)
  /\ iter = 0
  /\ dest = <<>>
  /\ sink = NoSink
  /\ that = DefaultBlocks(nullptr)
  /\ ref = NoRef
  /\ cmp = NoCmp

----------------------------------------------------------------------------
(* AbslStringify(sink, ByteFill): the fill is appended in pieces that a    *)
(* size_t can count.                                                       *)

\* One Append for the whole of `length`, whatever a size_t can hold.
Stringify_AppendsWhole(s, fill) ==
  [pc |-> "done", length |-> s.length,
   appends |-> IF s.length > 0
               THEN Append(s.appends, [length |-> s.length, fill |-> fill])
               ELSE s.appends]

\* One evaluation of the loop condition and what follows it: the body of the
\* while loop, or the statement after the loop.
Stringify(s, fill) ==
  IF s.length > SizeMax
  THEN [pc |-> "loop", length |-> s.length - SizeMax,
        appends |-> Append(s.appends, [length |-> SizeMax, fill |-> fill])]
  ELSE [pc |-> "done", length |-> s.length,
        appends |-> IF s.length > 0
                    THEN Append(s.appends, [length |-> s.length, fill |-> fill])
                    ELSE s.appends]

\* AbslStringify is entered: Position length = self.size_
AbslStringify ==
  /\ Running
  /\ sink.pc # "loop"
  /\ sink' = [pc |-> "loop", length |-> byte_fill.size_, appends |-> <<>>]
  /\ FApply("AbslStringify", 0, Returned(byte_fill, <<>>), "none")
  /\ UNCHANGED <<byte_fill, blocks, iter, dest, that, ref, cmp>>

\* AbslStringify goes on by one test of the loop condition.
StringifyStep ==
  /\ Running
  /\ sink.pc = "loop"
  /\ sink' = Stringify(sink, byte_fill.fill_)
  /\ UNCHANGED <<byte_fill, blocks, iter, dest, that, ref, cmp, last, sut,
                 readerVars, writerVars, src_caps>>

\* Extract between two calls of AbslStringify, never during one.
ExtractIdle ==
  /\ sink.pc # "loop"
  /\ ExtractFill

NextStringify ==
  \/ ExtractIdle
  \/ AbslStringify
  \/ StringifyStep

----------------------------------------------------------------------------
(* Blocks moved, blocks accessed by index, and BlockIterator arithmetic.   *)

\* Where a Blocks is move-constructed to
MovedAddr == 6 * PosMax + 12

\* difference_type is ptrdiff_t, as wide as Position
DiffMin == -((PosMax + 1) \div 2)
DiffMax == PosMax \div 2

\* static_cast<Position>(n), and the result of arithmetic on Position
ToPosition(n) == n % (PosMax + 1)
\* A Position converted to difference_type
ToDifference(x) == IF x > DiffMax THEN x - (PosMax + 1) ELSE x
\* UnsignedCast(n) for n >= 0 and NegatingUnsignedCast(n) for n < 0
UnsignedCast(n) == n
NegatingUnsignedCast(n) == 0 - n

\* The assertions: one that a build may leave unchecked, one always checked.
RIEGELI_ASSERT(cond) == IF cond THEN {"passed"} ELSE {"failed", "unchecked"}
RIEGELI_ASSERT_LT(a, b) == RIEGELI_ASSERT(a < b)
RIEGELI_ASSERT_GT(a, b) == RIEGELI_ASSERT(a > b)
RIEGELI_CHECK_LT(a, b) == IF a < b THEN {"passed"} ELSE {"failed"}

\* What is left of a variant alternative that was moved from: a SharedBuffer
\* gives up its array, the other two are copied.
MovedFrom(block) ==
  IF block.kind = "SharedBuffer" THEN SharedBuffer(block.fill, nullptr)
  ELSE block

\* Blocks(Blocks&& that) leaving data_ as it was in `that`.
Blocks_Move_KeepsData(t, at) ==
  [self |-> [num_blocks_ |-> t.num_blocks_, non_last_block_size_ |-> 0,
             last_block_size_ |-> t.last_block_size_, data_ |-> t.data_,
             block_ |-> t.block_, at |-> at],
   that |-> [t EXCEPT !.num_blocks_ = 0, !.block_ = MovedFrom(t.block_)]]

\* Blocks(Blocks&& that), constructing at address `at`: the new Blocks and
\* what is left of `that`.  The initializers name num_blocks_,
\* last_block_size_, data_ and block_; non_last_block_size_ keeps its default
\* member initializer.
Blocks_Move(t, at) ==
  LET moved == [num_blocks_ |-> t.num_blocks_,
                non_last_block_size_ |-> 0,
                last_block_size_ |-> t.last_block_size_,
                data_ |-> t.data_,
                block_ |-> t.block_,
                at |-> at]
  IN  [self |-> IF moved.block_.kind = "SmallBlock"
                THEN [moved EXCEPT !.data_ = SmallBlock_data(moved)]
                ELSE moved,
       that |-> [t EXCEPT !.num_blocks_ = 0, !.block_ = MovedFrom(t.block_)]]

\* What an access to a block gives: the BlockRef and how the assertion went.
Accessed(r, a) == [ref |-> IF a = "failed" THEN NoRef ELSE r, assert |-> a]

\* Blocks::operator[] taking n for the block_index_complement.
Blocks_subscript_Complement(b, n) ==
  {Accessed(BlockRef(b, n), a) : a \in RIEGELI_ASSERT_LT(n, Blocks_size(b))}

\* Blocks::operator[](n)
Blocks_subscript(b, n) ==
  {Accessed(BlockRef(b, ToPosition(b.num_blocks_ - n)), a) :
     a \in RIEGELI_ASSERT_LT(n, Blocks_size(b))}

\* Blocks::at(n)
Blocks_at(b, n) ==
  {Accessed(BlockRef(b, ToPosition(b.num_blocks_ - n)), a) :
     a \in RIEGELI_CHECK_LT(n, Blocks_size(b))}

\* Blocks::front() and Blocks::back()
Blocks_front(b) ==
  {Accessed(BlockRef(b, b.num_blocks_), a) :
     a \in RIEGELI_ASSERT(Blocks_size(b) # 0)}
Blocks_back(b) ==
  {Accessed(BlockRef(b, 1), a) : a \in RIEGELI_ASSERT(Blocks_size(b) # 0)}

\* What a move of an iterator gives: its block_index_complement_ and how the
\* assertion went.
Moved(old, new, a) == [c |-> IF a = "failed" THEN old ELSE new, assert |-> a]

\* BlockIterator::operator*
operator_deref(b, c) ==
  {Accessed(BlockRef(b, c), a) : a \in RIEGELI_ASSERT_GT(c, 0)}

\* BlockIterator::operator++ and BlockIterator::operator--
operator_inc(b, c) ==
  {Moved(c, ToPosition(c - 1), a) : a \in RIEGELI_ASSERT_GT(c, 0)}
operator_dec(b, c) ==
  {Moved(c, ToPosition(c + 1), a) : a \in RIEGELI_ASSERT_LT(c, Blocks_size(b))}

\* BlockIterator::operator+= with the checks of n < 0 made for n >= 0 too.
operator_plus_eq_OneCheck(b, c, n) ==
  {Moved(c, ToPosition(c - ToPosition(n)), a) :
     a \in RIEGELI_ASSERT_LE(ToPosition(n), c)}

\* BlockIterator::operator+=(n)
operator_plus_eq(b, c, n) ==
  {Moved(c, ToPosition(c - ToPosition(n)), a) :
     a \in IF n >= 0
           THEN RIEGELI_ASSERT_LE(UnsignedCast(n), c)
           ELSE RIEGELI_ASSERT_LE(NegatingUnsignedCast(n),
                                  ToPosition(Blocks_size(b) - c))}

\* BlockIterator::operator-=(n)
operator_minus_eq(b, c, n) ==
  {Moved(c, ToPosition(c + ToPosition(n)), a) :
     a \in IF n >= 0
           THEN RIEGELI_ASSERT_LE(UnsignedCast(n),
                                  ToPosition(Blocks_size(b) - c))
           ELSE RIEGELI_ASSERT_LE(NegatingUnsignedCast(n), c)}

\* operator==(a, b), a < b through RIEGELI_COMPARE(a, b), and operator-(a, b)
\* on two iterators over the same Blocks, given by their
\* block_index_complement_
operator_eq(a, b) == b = a
operator_less(a, b) == b < a
operator_diff(a, b) == ToDifference(ToPosition(b - a))

\* The calls before kept to their preconditions: what an iterator or a
\* BlockRef is after a call that did not is not followed further.
InContract == Running /\ last.err = "none"

BApply(op, arg, assert) ==
  /\ FApply(op, arg, Returned(last.ret.value, <<>>),
            IF assert = "failed" THEN "assertion"
            ELSE IF assert = "unchecked" THEN "unchecked" ELSE "none")
  /\ UNCHANGED <<byte_fill, dest, sink>>

\* Blocks moved(std::move(blocks)); the iterator is begin() of the new one.
MoveBlocks ==
  /\ InContract
  /\ LET o == Blocks_Move(blocks, IF blocks.at = MovedAddr
                                  THEN BlocksAddr ELSE MovedAddr)
     IN  /\ blocks' = o.self
         /\ that' = o.that
         /\ iter' = begin(o.self)
  /\ BApply("Blocks", 0, "passed")
  /\ ref' = NoRef
  /\ cmp' = NoCmp

\* blocks[n], blocks.at(n), blocks.front(), blocks.back()
Index ==
  /\ InContract
  /\ \/ \E n \in 0..PosMax : \E o \in Blocks_subscript(blocks, n) :
          ref' = o.ref /\ BApply("operator[]", n, o.assert)
     \/ \E n \in 0..PosMax : \E o \in Blocks_at(blocks, n) :
          ref' = o.ref /\ BApply("at", n, o.assert)
     \/ \E o \in Blocks_front(blocks) :
          ref' = o.ref /\ BApply("front", 0, o.assert)
     \/ \E o \in Blocks_back(blocks) :
          ref' = o.ref /\ BApply("back", 0, o.assert)
  /\ cmp' = NoCmp
  /\ UNCHANGED <<blocks, that, iter>>

\* *(blocks.begin() + n): the iterator is left where begin() + n got to.
IndexFromBegin ==
  /\ InContract
  /\ \E n \in 0..DiffMax :
       \E m \in operator_plus_eq(blocks, begin(blocks), n) :
         IF m.assert = "failed"
         THEN /\ BApply("*(begin()+n)", n, "failed")
              /\ ref' = NoRef
              /\ UNCHANGED iter
         ELSE \E o \in operator_deref(blocks, m.c) :
                /\ iter' = m.c
                /\ ref' = o.ref
                /\ BApply("*(begin()+n)", n,
                          IF m.assert = "passed" THEN o.assert ELSE m.assert)
  /\ cmp' = NoCmp
  /\ UNCHANGED <<blocks, that>>

\* *iter
Dereference ==
  /\ InContract
  /\ \E o \in operator_deref(blocks, iter) :
       ref' = o.ref /\ BApply("operator*", 0, o.assert)
  /\ cmp' = NoCmp
  /\ UNCHANGED <<blocks, that, iter>>

\* ++iter and --iter
Step ==
  /\ InContract
  /\ \/ \E m \in operator_inc(blocks, iter) :
          iter' = m.c /\ BApply("operator++", 0, m.assert)
     \/ \E m \in operator_dec(blocks, iter) :
          iter' = m.c /\ BApply("operator--", 0, m.assert)
  /\ ref' = NoRef
  /\ cmp' = NoCmp
  /\ UNCHANGED <<blocks, that>>

\* iter += n and iter -= n
Jump ==
  /\ InContract
  /\ \E n \in DiffMin..DiffMax :
       \/ \E m \in operator_plus_eq(blocks, iter, n) :
            iter' = m.c /\ BApply("operator+=", n, m.assert)
       \/ \E m \in operator_minus_eq(blocks, iter, n) :
            iter' = m.c /\ BApply("operator-=", n, m.assert)
  /\ ref' = NoRef
  /\ cmp' = NoCmp
  /\ UNCHANGED <<blocks, that>>

\* iter is compared with blocks.begin() + j, for a j that begin() + j passes.
CompareIters ==
  /\ InContract
  /\ \E j \in 0..DiffMax :
       \E m \in operator_plus_eq(blocks, begin(blocks), j) :
         /\ m.assert = "passed"
         /\ cmp' = [with |-> j,
                    eq |-> operator_eq(iter, m.c),
                    less |-> operator_less(iter, m.c),
                    diff |-> operator_diff(iter, m.c)]
         /\ BApply("compare", j, "passed")
  /\ ref' = NoRef
  /\ UNCHANGED <<blocks, that, iter>>

NextBlocks ==
  \/ CallBlocks
  \/ MoveBlocks
  \/ Index
  \/ IndexFromBegin
  \/ Dereference
  \/ Step
  \/ Jump
  \/ CompareIters

----------------------------------------------------------------------------
(* MaskCrc32c and UnmaskCrc32c.  A uint32_t is the set of the positions of *)
(* its bits that are 1, bit 0 the lowest.                                  *)

\* The width of uint32_t
WordBits == 32
\* The template argument ror_bits
ror_bits == 15

\* The bits of n < 2^16, moved up by `offset`.
BitsOf(n, offset) == {i + offset : i \in {j \in 0..15 : (n \div 2^j) % 2 = 1}}

\* The template argument delta, 0xa282ead8
delta == BitsOf(41602, 16) \cup BitsOf(60120, 0)

\* x << k and x >> k on a uint32_t, and a | b
Shl(x, k) == {i + k : i \in {j \in x : j + k < WordBits}}
Shr(x, k) == {i - k : i \in {j \in x : j >= k}}
BitOr(a, b) == a \cup b

Bit(x, i) == IF i \in x THEN 1 ELSE 0

\* a + b on uint32_t: the bits from i up, with the carry into bit i.
RECURSIVE AddFrom(_, _, _, _)
AddFrom(a, b, i, carry) ==
  IF i = WordBits THEN {}
  ELSE LET s == Bit(a, i) + Bit(b, i) + carry
       IN  (IF s % 2 = 1 THEN {i} ELSE {}) \cup AddFrom(a, b, i + 1, s \div 2)

\* a - b on uint32_t: the bits from i up, with the borrow from bit i.
RECURSIVE SubFrom(_, _, _, _)
SubFrom(a, b, i, borrow) ==
  IF i = WordBits THEN {}
  ELSE LET d == Bit(a, i) - Bit(b, i) - borrow
       IN  (IF d % 2 = 1 THEN {i} ELSE {})
             \cup SubFrom(a, b, i + 1, IF d < 0 THEN 1 ELSE 0)

\* UnmaskCrc32c adding delta where it is to be taken off.
UnmaskCrc32c_AddsDelta(masked) ==
  LET rotated == AddFrom(masked, delta, 0, 0)
  IN  BitOr(Shl(rotated, ror_bits), Shr(rotated, WordBits - ror_bits))

\* MaskCrc32c<delta, ror_bits>(unmasked)
MaskCrc32c(unmasked) ==
  LET rotated == BitOr(Shl(unmasked, WordBits - ror_bits),
                       Shr(unmasked, ror_bits))
  IN  AddFrom(rotated, delta, 0, 0)

\* UnmaskCrc32c<delta, ror_bits>(masked)
UnmaskCrc32c(masked) ==
  LET rotated == SubFrom(masked, delta, 0, 0)
  IN  BitOr(Shl(rotated, ror_bits), Shr(rotated, WordBits - ror_bits))

\* The values tried: every choice of the bits next to the ends of the word
\* and next to the place where the rotation cuts it, and the complements.
BoundaryBits ==
  {0, 1, ror_bits - 1, ror_bits, WordBits - ror_bits - 1, WordBits - ror_bits,
   WordBits - 2, WordBits - 1}
Inputs ==
  SUBSET BoundaryBits \cup {(0..(WordBits - 1)) \ s : s \in SUBSET BoundaryBits}

CrcCall(op, arg, ret) ==
  /\ sut = "crc"
  /\ last' = Called(op, arg, ret)
  /\ UNCHANGED <<sut, readerVars, writerVars, src_caps, fillVars>>

\* A value is masked: a checksum to be stored, or one that was unmasked.
Mask ==
  /\ last.op \in {"uint32_t", "UnmaskCrc32c"}
  /\ CrcCall("MaskCrc32c", last.ret, MaskCrc32c(last.ret))

\* A value is unmasked: a stored one, or one that was masked.
Unmask ==
  /\ last.op \in {"uint32_t", "MaskCrc32c"}
  /\ CrcCall("UnmaskCrc32c", last.ret, UnmaskCrc32c(last.ret))

NextCrc ==
  \/ Mask
  \/ Unmask

InitCrc ==
  /\ sut = "crc"
  /\ InitReaderIdle
  /\ InitWriterIdle
  /\ InitFillIdle
  /\ \E x \in Inputs : last = Called("uint32_t", x, x)

----------------------------------------------------------------------------
(* The specifications: the reader alone, the writer alone, and either.     *)

Spec == InitReader /\ [][NextReader]_vars
SpecWriter == InitWriter /\ [][NextWriter]_vars
SpecStreams == (InitReader \/ InitWriter) /\ [][NextReader \/ NextWriter]_vars
SpecQueries == InitQueries /\ [][NextQueries]_vars
SpecByteFill == InitByteFill /\ [][NextByteFill]_vars
SpecCrc == InitCrc /\ [][NextCrc]_vars
SpecBlocks == InitByteFill /\ [][NextBlocks]_vars
\* AbslStringify runs on once it was entered.
SpecStringify ==
  InitByteFill /\ [][NextStringify]_vars /\ WF_vars(StringifyStep)

----------------------------------------------------------------------------
(* The claims about PositionShiftingReader.                                *)

\* C1: after any sequence of successful reads that consumed n <= |C| bytes,
\* pos() equals base_pos + n and the bytes delivered are exactly C[0..n).
C1_ReadPosition ==
  (sut = "reader" /\ hist.reads_only) =>
    /\ pos(psr) = psr.base_pos + Len(hist.bytes)
    /\ Len(hist.bytes) <= Len(content)
    /\ hist.bytes = SubSeq(content, 1, Len(hist.bytes))

\* C2: on a healthy reader, Seek(p) with p < base_pos fails with underflow and
\* leaves the inner reader as it was; Seek(base_pos) succeeds and leaves the
\* inner reader at position 0.
C2_SeekAtBase ==
  [][(sut = "reader" /\ ok(psr) /\ last'.op = "Seek") =>
       /\ last'.arg < psr.base_pos =>
            (~last'.ret /\ last'.err = "underflow" /\ src' = src)
       /\ last'.arg = psr.base_pos =>
            (last'.ret /\ last'.err = "none" /\ pos(src') = 0)]_vars

C2_Witness ==
  /\ sut = "reader"
  /\ last.op = "Seek"
  /\ last.err = "underflow"
  /\ last.arg = psr.base_pos - 1
  /\ ok(psr)
  /\ pos(src) > 0

C4_PosAtLeastBase == sut = "reader" => pos(psr) >= psr.base_pos

\* What a re-import of the window of s leaves of the reader `before`.
Reimported(before, s, after) ==
  IF s.limit_pos > PosMax - before.base_pos
  THEN after.status.code = "overflow" /\ after.limit_pos = before.limit_pos
  ELSE after.limit_pos = s.limit_pos + before.base_pos

\* C5: whenever the buffer window is re-imported from the inner reader
\* (construction, refill, seek, sync, move), either inner.limit_pos >
\* max Position - base_pos, and then the reader is failed with overflow and
\* its limit_pos is left alone, or limit_pos = inner.limit_pos + base_pos.
C5_OverflowChecked ==
  /\ sut = "reader" => Reimported(PositionShiftingReaderBase(psr.base_pos), src, psr)
  /\ [][(sut = "reader" /\ last'.made) => Reimported(psr, src', psr')]_vars

C5_Witness ==
  /\ sut = "reader"
  /\ last.op = "Pull"
  /\ last.made
  /\ src.limit_pos > PosMax - psr.base_pos
  /\ psr.status.code = "overflow"
  /\ psr.limit_pos >= psr.base_pos
  /\ psr.limit_pos < src.limit_pos + psr.base_pos

\* What SeekSlow(new_pos) does for new_pos >= base_pos: the cursor is written
\* back, the inner reader seeks to new_pos - base_pos, the window is
\* re-imported and the inner result returned.
SeekTranslated(new_pos, ret) ==
  LET o == SrcSeek([src EXCEPT !.cursor = psr.cursor], new_pos - psr.base_pos)
  IN  /\ src' = o.s
      /\ ret = o.ret
      /\ psr'.start = src'.cursor /\ psr'.cursor = src'.cursor
      /\ psr'.limit = src'.limit
      /\ ret => (pos(psr') = new_pos /\ pos(src') = new_pos - psr.base_pos)

\* C6 as stated: every Seek(p) with p >= base_pos on a healthy reader is
\* translated to the inner reader.
C6_SeekTranslates ==
  [][(sut = "reader" /\ ok(psr) /\ last'.op = "Seek"
        /\ last'.arg >= psr.base_pos) =>
       SeekTranslated(last'.arg, last'.ret)]_vars

\* C6 as amended: a Seek(p) with p >= base_pos outside of the buffered window
\* (SeekSlow) is translated to the inner reader; within the window only the
\* reader's own cursor moves, and pos() = p.
C6_SeekSlowTranslates ==
  [][(sut = "reader" /\ ok(psr) /\ last'.op = "Seek"
        /\ last'.arg >= psr.base_pos) =>
       IF last'.arg >= start_pos(psr) /\ last'.arg <= psr.limit_pos
       THEN last'.ret /\ src' = src /\ pos(psr') = last'.arg
       ELSE SeekTranslated(last'.arg, last'.ret)]_vars

C6_Witness ==
  /\ sut = "reader"
  /\ last.op = "Seek"
  /\ last.slow
  /\ last.made
  /\ last.ret
  /\ last.arg > psr.base_pos
  /\ psr.base_pos > 0
  /\ pos(psr) = last.arg
  /\ pos(src) = last.arg - psr.base_pos

\* C7: on a failed NullBackwardWriter, Push, Write(Chain), Write(Cord),
\* WriteZeros and Truncate return false and leave pos(), start_pos and the
\* status as they were; on a failed PositionShiftingReader, Sync returns false
\* and leaves the inner reader as it was.
C7_FailedIsNoOp ==
  /\ [][(sut = "writer" /\ nbw.status # OkStatus
           /\ last'.op \in {"Push", "WriteChain", "WriteCord", "WriteZeros",
                            "Truncate"}) =>
          /\ ~last'.ret
          /\ BW_pos(nbw') = BW_pos(nbw)
          /\ nbw'.start_pos = nbw.start_pos
          /\ nbw'.status = nbw.status]_vars
  /\ [][(sut = "reader" /\ psr.status # OkStatus /\ last'.op = "Sync") =>
          /\ ~last'.ret
          /\ src' = src
          /\ psr'.status = psr.status]_vars

C7_Witness ==
  /\ sut = "writer"
  /\ nbw.status = Status("overflow")
  /\ nbw.open
  /\ last.op = "Truncate"
  /\ ~last.ret
  /\ last.arg < BW_pos(nbw)
  /\ BW_pos(nbw) > 0

\* C8: a borrowed inner reader is never closed by the wrapper; an owned one is
\* closed exactly once, when the wrapper is closed.
C8_ClosesOwnedOnce ==
  sut = "reader" =>
    IF owning
    THEN srcCloses = (IF psr.open THEN 0 ELSE 1) /\ src.open = psr.open
    ELSE srcCloses = 0 /\ src.open

C8_Witness ==
  /\ sut = "reader"
  /\ owning
  /\ ~psr.open
  /\ last.op = "Close"
  /\ ~last.slow
  /\ srcCloses = 1

\* C9: closing an owning reader whose inner Close() fails leaves the reader
\* failed and Close() reports failure; the status is the inner reader's,
\* annotated, unless the reader had failed before, whose status is retained.
C9_CloseMergesFailure ==
  [][(sut = "reader" /\ last'.op = "Close" /\ psr.open /\ owning) =>
       /\ psr.status # OkStatus => psr'.status = psr.status
       /\ src'.status # OkStatus =>
            /\ ~last'.ret
            /\ psr'.status # OkStatus
            /\ psr.status = OkStatus =>
                 psr'.status = [src'.status EXCEPT !.over_src = TRUE]
       /\ ~psr'.open /\ ~src'.open]_vars

C9_Witness ==
  /\ sut = "reader"
  /\ owning
  /\ ~psr.open
  /\ last.op = "Close"
  /\ ~last.ret
  /\ src.status = Status("close")
  /\ psr.status = [code |-> "close", over_src |-> TRUE]

\* C10: Sync(sync_type) on a healthy reader writes the cursor back to the
\* inner reader, calls inner.Sync(sync_type) iff sync_type is not kFromObject
\* or the inner reader is owned, and re-imports the window; either way the
\* inner reader's position is what was consumed through the wrapper.
C10_SyncForwarded ==
  [][(sut = "reader" /\ last'.op = "Sync" /\ ok(psr)) =>
       /\ (last'.src_sync # "none") <=> (last'.arg # "kFromObject" \/ owning)
       /\ last'.src_sync \in {"none", last'.arg}
       /\ pos(src') = pos(psr) - psr.base_pos
       /\ psr'.start = src'.cursor /\ psr'.cursor = src'.cursor
       /\ psr'.limit = src'.limit
       /\ psr'.limit_pos = src'.limit_pos + psr.base_pos]_vars

C10_Witness ==
  /\ sut = "reader"
  /\ last.op = "Sync"
  /\ last.arg = "kFromObject"
  /\ ~owning
  /\ last.ret
  /\ last.made
  /\ last.src_sync = "none"
  /\ pos(src) > 0
  /\ src.cursor > src.start

\* C11: moving an open reader whose inner reader is not address-stable writes
\* the cursor into the inner reader, moves the inner reader and imports the
\* buffer of the moved inner reader: pos() and base_pos are kept, and cursor
\* and limit are those of the moved inner reader.
C11_MoveReimports ==
  [][(sut = "reader" /\ last'.op = "Move" /\ psr.open /\ ~stable) =>
       /\ src' = Relocate(SyncBuffer(psr, src))
       /\ pos(psr') = pos(psr)
       /\ psr'.base_pos = psr.base_pos
       /\ psr'.cursor = src'.cursor
       /\ psr'.limit = src'.limit]_vars

\* C12 as stated: after construction or any import of the buffer from an
\* inner reader that is not ok, the reader carries the annotated status of
\* the inner reader.
C12_InnerStatusCarried ==
  (sut = "reader" /\ last.made /\ ~ok(src)) =>
    psr.status = AnnotateOverSrc(src.status)

\* C12 as amended: after construction or any import of the buffer from an
\* inner reader that is not ok, the reader is not ok; a reader that was ok
\* carries the annotated status of the inner reader if the shifted limit
\* position is representable, and the overflow status if it is not; a reader
\* that had failed keeps its status.
C12_FailurePropagated ==
  /\ (sut = "reader" /\ ~ok(src)) =>
       psr.status = IF src.limit_pos > PosMax - psr.base_pos
                    THEN Status("overflow")
                    ELSE AnnotateOverSrc(src.status)
  /\ [][(sut = "reader" /\ last'.made /\ ~ok(src')) =>
          /\ ~ok(psr')
          /\ psr'.status =
               IF ~ok(psr) THEN psr.status
               ELSE IF src'.limit_pos > PosMax - psr.base_pos
               THEN Status("overflow")
               ELSE AnnotateOverSrc(src'.status)]_vars

C12_Witness ==
  /\ sut = "reader"
  /\ last.op \in {"Pull", "Read"}
  /\ last.made
  /\ ~last.ret
  /\ src.status = Status("io")
  /\ psr.status = AnnotateOverSrc(Status("io"))
  /\ psr.base_pos > 0

\* C13: every capability query of the reader returns what the inner reader
\* answers to the same query, whatever base_pos is.
C13_CapabilitiesForwarded ==
  [][(sut = "reader" /\ last'.op \in Capabilities) =>
       last'.ret = src_caps[last'.op]]_vars

C13_Witness ==
  /\ sut = "reader"
  /\ last.op = "SupportsRandomAccess"
  /\ ~last.ret
  /\ src_caps["SupportsSize"]
  /\ ~src_caps["SupportsRandomAccess"]
  /\ psr.base_pos > 0
  /\ ok(psr)

----------------------------------------------------------------------------
(* The claims about NullBackwardWriter.                                    *)

WriteOps == {"WriteChain", "WriteCord", "WriteZeros"}

\* C19: on a healthy writer at pos() = S, Truncate(n) with n <= S returns
\* true in either branch, leaves the writer ok and makes pos() = n; a write
\* that follows and succeeds continues from n.
C19_TruncateWithinWritten ==
  /\ [][(sut = "writer" /\ ok(nbw) /\ last'.op = "Truncate"
           /\ last'.arg <= BW_pos(nbw)) =>
          /\ last'.ret
          /\ ok(nbw')
          /\ BW_pos(nbw') = last'.arg]_vars
  /\ [][(sut = "writer" /\ last.op = "Truncate" /\ last.ret
           /\ last'.op \in WriteOps \cup {"Fill"} /\ last'.ret) =>
          BW_pos(nbw') = last.arg + last'.arg]_vars

C19_Witness ==
  /\ sut = "writer"
  /\ last.op = "Truncate"
  /\ last.ret
  /\ ok(nbw)
  /\ nbw.start_pos > 0
  /\ last.arg > nbw.start_pos
  /\ BW_pos(nbw) = last.arg
  /\ BW_available(nbw) > 0

\* C20 as stated: on a healthy writer a slow-path Write of a Chain or a Cord
\* of length L, or WriteZeros(L), with L <= max Position - pos() returns true
\* and makes pos() the pos() before plus L with nothing written in the buffer;
\* with L > max Position - pos() it fails with overflow and leaves pos() as it
\* was.
C20_SlowWriteKeepsPos ==
  [][(sut = "writer" /\ ok(nbw) /\ last'.op \in WriteOps /\ last'.slow) =>
       IF last'.arg <= PosMax - BW_pos(nbw)
       THEN /\ last'.ret
            /\ ok(nbw')
            /\ BW_pos(nbw') = BW_pos(nbw) + last'.arg
            /\ BW_start_to_cursor(nbw') = 0
       ELSE /\ ~last'.ret
            /\ nbw'.status = Status("overflow")
            /\ BW_pos(nbw') = BW_pos(nbw)]_vars

\* C20 as amended: the same for L <= max Position - pos(); with
\* L > max Position - pos() the write fails with overflow, start_pos stays and
\* the buffer is dropped, so that pos() falls back to start_pos.
C20_SlowWriteAdvances ==
  [][(sut = "writer" /\ ok(nbw) /\ last'.op \in WriteOps /\ last'.slow) =>
       IF last'.arg <= PosMax - BW_pos(nbw)
       THEN /\ last'.ret
            /\ ok(nbw')
            /\ BW_pos(nbw') = BW_pos(nbw) + last'.arg
            /\ BW_start_to_cursor(nbw') = 0
       ELSE /\ ~last'.ret
            /\ nbw'.status = Status("overflow")
            /\ nbw'.start_pos = nbw.start_pos
            /\ BW_pos(nbw') = nbw.start_pos]_vars

C20_Witness ==
  /\ sut = "writer"
  /\ last.op \in WriteOps
  /\ last.slow
  /\ last.ret
  /\ ok(nbw)
  /\ last.arg > kMaxBytesToCopy
  /\ BW_pos(nbw) > last.arg
  /\ BW_start_to_cursor(nbw) = 0

\* C21: an open writer that was not failed becomes failed only by a Push,
\* Write or WriteZeros whose length exceeds max Position - pos(), and then
\* with the overflow status; Truncate never fails it.
C21_OnlyOverflowFails ==
  [][(sut = "writer" /\ nbw.open /\ nbw.status = OkStatus
        /\ nbw'.status # OkStatus) =>
       /\ nbw'.status = Status("overflow")
       /\ last'.op \in WriteOps \cup {"Push"}
       /\ last'.arg > PosMax - BW_pos(nbw)]_vars

C21_Witness ==
  /\ sut = "writer"
  /\ nbw.open
  /\ nbw.status = Status("overflow")
  /\ last.op = "Push"
  /\ ~last.ret
  /\ nbw.start_pos > 0
  /\ nbw.start_pos < PosMax
  /\ last.arg > PosMax - nbw.start_pos

\* C22: a Push(min_length) on a healthy writer that returns true leaves
\* available() >= min_length and pos() as it was; it returns false, with
\* overflow, exactly when min_length > max Position - pos().
C22_PushPostcondition ==
  [][(sut = "writer" /\ ok(nbw) /\ last'.op = "Push") =>
       /\ last'.ret =>
            /\ BW_available(nbw') >= last'.arg
            /\ BW_pos(nbw') = BW_pos(nbw)
            /\ ok(nbw')
       /\ ~last'.ret <=> last'.arg > PosMax - BW_pos(nbw)
       /\ ~last'.ret => nbw'.status = Status("overflow")]_vars

C22_Witness ==
  /\ sut = "writer"
  /\ last.op = "Push"
  /\ last.slow
  /\ last.ret
  /\ ok(nbw)
  /\ BW_available(nbw) >= last.arg
  /\ BW_pos(nbw) > 0
  /\ BW_pos(nbw) + last.arg = PosMax

\* What Truncate(new_size) does to a writer on which it works: within the
\* buffered region only the cursor moves; before it, the run is ended at the
\* old pos(), start_pos becomes new_size with nothing written in the buffer,
\* and a run is begun at new_size.
TruncateFrame(new_size) ==
  /\ (nbw.start_pos <= new_size /\ new_size <= BW_pos(nbw)) =>
       /\ nbw' = [nbw EXCEPT !.cursor = nbw.start - (new_size - nbw.start_pos)]
       /\ buffer_' = buffer_
       /\ run' = run
  /\ new_size < nbw.start_pos =>
       /\ nbw' = [nbw EXCEPT !.start_pos = new_size, !.cursor = nbw.start]
       /\ buffer_' = buffer_
       /\ run' = BeginRun(EndRun(run, BW_pos(nbw)), new_size)

\* C23 as stated: every Truncate(new_size) has this effect.
C23_TruncateFrameAlways ==
  [][(sut = "writer" /\ last'.op = "Truncate") => TruncateFrame(last'.arg)]_vars

\* C23 as amended: every Truncate(new_size) on a healthy writer has this
\* effect; on a writer that is failed or closed it changes nothing.
C23_TruncateFrameHealthy ==
  [][(sut = "writer" /\ last'.op = "Truncate") =>
       IF ok(nbw) THEN TruncateFrame(last'.arg)
       ELSE ~last'.ret /\ nbw' = nbw /\ buffer_' = buffer_ /\ run' = run]_vars

C23_Witness ==
  /\ sut = "writer"
  /\ last.op = "Truncate"
  /\ last.ret
  /\ ok(nbw)
  /\ last.arg > 0
  /\ nbw.start_pos = last.arg
  /\ nbw.cursor = nbw.start
  /\ run.base_pos = last.arg
  /\ run.buffer_length_from_last_run > 0
  /\ BW_available(nbw) > 0

----------------------------------------------------------------------------
(* The claims about ByteFill.                                              *)

\* C14: blocks() of a ByteFill of size S has ceil(S / kBlockOfZerosSize)
\* blocks, none if S = 0; every block but the last has the length
\* kBlockOfZerosSize, and the last has S mod kBlockOfZerosSize, or
\* kBlockOfZerosSize if S is a multiple of it.
C14_BlockCount ==
  (sut = "bytefill" /\ last.op = "blocks") =>
    LET S == last.ret.value.size_
        N == Blocks_size(blocks)
        L == kBlockOfZerosSize
    IN  /\ N * L >= S
        /\ N > 0 => (N - 1) * L < S
        /\ S = 0 => N = 0
        /\ \A c \in 1..N :
             BlockRef_size(blocks, c) =
               IF c # 1 THEN L ELSE IF S % L = 0 THEN L ELSE S % L

C14_Witness ==
  /\ sut = "bytefill"
  /\ last.op = "blocks"
  /\ last.ret.value.size_ > kBlockOfZerosSize
  /\ Blocks_size(blocks) >= 2
  /\ BlockRef_size(blocks, 1) < kBlockOfZerosSize
  /\ BlockRef_size(blocks, 2) = kBlockOfZerosSize

\* C15: the blocks of blocks(), visited from begin() to end(), concatenate to
\* exactly S bytes, each equal to the fill; no block is empty, and S = 0 gives
\* no blocks.
C15_BlocksConcatenate ==
  (sut = "bytefill" /\ last.op \in {"blocks", "Convert"}) =>
    LET S == last.ret.value.size_
        f == last.ret.value.fill_
    IN  /\ \A i \in 1..Len(dest) : dest[i] = f
        /\ Len(dest) <= S
        /\ iter = end(blocks) => dest = [i \in 1..S |-> f]
        /\ \A c \in 1..Blocks_size(blocks) : BlockRef_size(blocks, c) > 0
        /\ S = 0 => begin(blocks) = end(blocks)

C15_Witness ==
  /\ sut = "bytefill"
  /\ last.op = "blocks"
  /\ last.ret.value.fill_ # 0
  /\ Blocks_size(blocks) >= 2
  /\ iter = end(blocks)
  /\ Len(dest) = last.ret.value.size_
  /\ Len(dest) % kBlockOfZerosSize # 0

\* C16 as stated: Extract(k) with k <= size() takes k off size(), keeps
\* fill() and returns ByteFill(k, fill()), so that the returned size and the
\* remaining size add up to the size before; Extract(k) with k > size() fails
\* an assertion and never leaves a wrapped size.
C16_ExtractNeverWraps ==
  [][(sut = "bytefill" /\ last'.op = "Extract") =>
       IF last'.arg <= byte_fill.size_
       THEN /\ last'.err = "none"
            /\ byte_fill'.size_ = byte_fill.size_ - last'.arg
            /\ byte_fill'.fill_ = byte_fill.fill_
            /\ last'.ret.value = ByteFill(last'.arg, byte_fill.fill_)
            /\ last'.ret.value.size_ + byte_fill'.size_ = byte_fill.size_
       ELSE /\ last'.err = "assertion"
            /\ byte_fill' = byte_fill]_vars

\* C16 as amended: the same for k <= size(); Extract(k) with k > size() fails
\* an assertion where assertions are checked, and where they are not it leaves
\* size() - k wrapped around and returns ByteFill(k, fill()).
C16_ExtractSplits ==
  [][(sut = "bytefill" /\ last'.op = "Extract") =>
       IF last'.arg <= byte_fill.size_
       THEN /\ last'.err = "none"
            /\ byte_fill'.size_ = byte_fill.size_ - last'.arg
            /\ byte_fill'.fill_ = byte_fill.fill_
            /\ last'.ret.value = ByteFill(last'.arg, byte_fill.fill_)
            /\ last'.ret.value.size_ + byte_fill'.size_ = byte_fill.size_
       ELSE \/ /\ last'.err = "assertion"
               /\ byte_fill' = byte_fill
            \/ /\ last'.err = "none"
               /\ byte_fill'.size_ = byte_fill.size_ + (PosMax + 1) - last'.arg
               /\ byte_fill'.fill_ = byte_fill.fill_
               /\ last'.ret.value = ByteFill(last'.arg, byte_fill.fill_)]_vars

C16_Witness ==
  /\ sut = "bytefill"
  /\ last.op = "Extract"
  /\ last.err = "none"
  /\ last.arg > 0
  /\ last.ret.value = ByteFill(last.arg, byte_fill.fill_)
  /\ byte_fill.size_ > 0
  /\ last.arg + byte_fill.size_ < PosMax
  /\ byte_fill.fill_ # 0

\* C17: one backing serves all blocks of a Blocks: block_ holds exactly one of
\* ZeroBlock, SmallBlock and SharedBuffer; a fill other than zero of a size up
\* to kSize gives one block in the SmallBlock; every block, the shorter last
\* one too, reports the same data(), the start of the array that block_ keeps,
\* and lies within that array.
C17_OneBacking ==
  (sut = "bytefill" /\ last.op \in {"blocks", "Convert"}) =>
    LET S == last.ret.value.size_
        f == last.ret.value.fill_
        N == Blocks_size(blocks)
    IN  /\ blocks.block_.kind \in {"ZeroBlock", "SmallBlock", "SharedBuffer"}
        /\ (f # 0 /\ S > 0 /\ S <= kSize) =>
             /\ N = 1
             /\ blocks.block_.kind = "SmallBlock"
             /\ BlockRef_data(blocks, 1) = SmallBlock_data(blocks)
        /\ \A c \in 1..N :
             /\ BlockRef_data(blocks, c) = BlockRef_data(blocks, N)
             /\ BlockRef_data(blocks, c) =
                  IF blocks.block_.kind = "ZeroBlock" THEN BlockOfZeros
                  ELSE IF blocks.block_.kind = "SmallBlock"
                  THEN SmallBlock_data(blocks)
                  ELSE blocks.block_.data
             /\ \A i \in 1..BlockRef_size(blocks, c) :
                  (BlockRef_data(blocks, c) + i - 1) \in Backing(blocks)

C17_Witness ==
  /\ sut = "bytefill"
  /\ last.op = "blocks"
  /\ blocks.block_.kind = "SharedBuffer"
  /\ Blocks_size(blocks) >= 2
  /\ BlockRef_size(blocks, 1) < BlockRef_size(blocks, 2)
  /\ BlockRef_data(blocks, 1) = BlockRef_data(blocks, 2)

\* C18: every ByteFill of zero fill and of a size above kSize views the one
\* array of zeros: each of its blocks reports BlockOfZeros() as data(), and
\* converted to a Chain or a Cord each block refers to that array, not copied
\* and with no storage that is counted or released.
C18_ZerosShared ==
  (sut = "bytefill" /\ last.op \in {"blocks", "Convert"}
     /\ last.ret.value.fill_ = 0 /\ last.ret.value.size_ > kSize) =>
    /\ blocks.block_ = ZeroBlock
    /\ \A c \in 1..Blocks_size(blocks) :
         BlockRef_data(blocks, c) = BlockOfZeros
    /\ last.op = "Convert" =>
         /\ Len(last.ret.chain) = Blocks_size(blocks)
         /\ \A i \in 1..Len(last.ret.chain) :
              /\ last.ret.chain[i].data = BlockOfZeros
              /\ ~last.ret.chain[i].copied
              /\ last.ret.chain[i].storage = NoStorage

C18_Witness ==
  /\ sut = "bytefill"
  /\ last.op = "Convert"
  /\ last.ret.value.fill_ = 0
  /\ last.ret.value.size_ > kBlockOfZerosSize
  /\ Len(last.ret.chain) >= 2
  /\ last.ret.chain[1].data = last.ret.chain[2].data
  /\ last.ret.chain[1].storage = NoStorage

----------------------------------------------------------------------------
(* The claim about MaskCrc32c and UnmaskCrc32c.                            *)

\* x rotated right by k bits
RotateRight(x, k) == {(i + WordBits - k) % WordBits : i \in x}

\* C24: MaskCrc32c(x) is x rotated right by ror_bits plus delta modulo 2^32,
\* and UnmaskCrc32c(MaskCrc32c(x)) = x.
C24_UnmaskInvertsMask ==
  [][(sut = "crc") =>
       /\ last'.op = "MaskCrc32c" =>
            last'.ret = AddFrom(RotateRight(last'.arg, ror_bits), delta, 0, 0)
       /\ (last.op = "MaskCrc32c" /\ last'.op = "UnmaskCrc32c") =>
            last'.ret = last.arg]_vars

C24_Witness ==
  /\ sut = "crc"
  /\ last.op = "UnmaskCrc32c"
  /\ last.arg = MaskCrc32c(last.ret)
  /\ last.arg # last.ret
  /\ 0 \in last.ret
  /\ (WordBits - 1) \in last.ret
  /\ ror_bits \in last.ret
  /\ 2 \notin last.ret

----------------------------------------------------------------------------
(* The claim about AbslStringify.                                          *)

RECURSIVE SumLengths(_)
SumLengths(appends) ==
  IF appends = <<>> THEN 0
  ELSE Head(appends).length + SumLengths(Tail(appends))

\* What holds of the Append calls of the last AbslStringify(sink, self):
\* those made so far, and all of them at the end.
StringifyPieces ==
  LET self == last.ret.value
  IN  /\ \A i \in 1..Len(sink.appends) :
           /\ sink.appends[i].length > 0
           /\ sink.appends[i].length <= SizeMax
           /\ sink.appends[i].fill = self.fill_
      /\ sink.pc = "loop" => SumLengths(sink.appends) + sink.length = self.size_
      /\ sink.pc = "done" => SumLengths(sink.appends) = self.size_
      /\ (sink.pc = "done" /\ self.size_ = 0) => sink.appends = <<>>

\* C25: AbslStringify of a ByteFill of size S ends, every Append it makes has
\* a length in (0, SizeMax], the lengths add up to S, and there is no Append
\* when S = 0.
C25_StringifyEmitsSize ==
  /\ []((sut = "bytefill" /\ last.op = "AbslStringify") => StringifyPieces)
  /\ (sink.pc = "loop") ~> (sink.pc = "done")

C25_Witness ==
  /\ sut = "bytefill"
  /\ last.op = "AbslStringify"
  /\ sink.pc = "done"
  /\ last.ret.value.size_ > SizeMax
  /\ Len(sink.appends) >= 2
  /\ sink.appends[Len(sink.appends)].length < SizeMax

----------------------------------------------------------------------------
(* Claims about Blocks and BlockIterator.                                  *)

\* The sizes of the blocks of b with block_index_complement from c down to 1,
\* added up.
RECURSIVE TotalSize(_, _)
TotalSize(b, c) ==
  IF c = 0 THEN 0 ELSE Blocks_block_size(b, c) + TotalSize(b, c - 1)

\* C26: move-constructing a Blocks gives a Blocks with as many blocks as the
\* source had, each of the size it had in the source, so of the same total
\* size; the source is left with no blocks.
C26_MoveKeepsBlocks ==
  [][(sut = "bytefill" /\ last'.op = "Blocks") =>
       /\ Blocks_size(blocks') = Blocks_size(blocks)
       /\ \A c \in 1..Blocks_size(blocks) :
            Blocks_block_size(blocks', c) = Blocks_block_size(blocks, c)
       /\ TotalSize(blocks', Blocks_size(blocks'))
            = TotalSize(blocks, Blocks_size(blocks))
       /\ Blocks_size(that') = 0]_vars

\* What a move does keep: the number of blocks and the size of the last one,
\* and the source is left with no blocks.
C26_MoveKeepsCountAndLast ==
  [][(sut = "bytefill" /\ last'.op = "Blocks") =>
       /\ Blocks_size(blocks') = Blocks_size(blocks)
       /\ Blocks_size(blocks) > 0 =>
            Blocks_block_size(blocks', 1) = Blocks_block_size(blocks, 1)
       /\ Blocks_size(that') = 0]_vars

\* data_ of b points at the start of the array that b itself keeps alive.
OwnBacking(b) ==
  /\ b.data_ \in Backing(b)
  /\ b.block_.kind = "ZeroBlock" => b.data_ = BlockOfZeros
  /\ b.block_.kind = "SmallBlock" => b.data_ = SmallBlock_data(b)
  /\ b.block_.kind = "SharedBuffer" => b.data_ = b.block_.data

\* C29: a Blocks with blocks has data_ pointing into the backing that it
\* holds itself; a Blocks move-constructed from one backed by a SmallBlock
\* points at its own SmallBlock, not at that of the source.
C29_DataInOwnBacking ==
  /\ [](sut = "bytefill" =>
          /\ blocks.num_blocks_ > 0 => OwnBacking(blocks)
          /\ that.num_blocks_ > 0 => OwnBacking(that))
  /\ [][(sut = "bytefill" /\ last'.op = "Blocks" /\ blocks.num_blocks_ > 0
           /\ blocks.block_.kind = "SmallBlock") =>
          /\ blocks'.at # blocks.at
          /\ blocks'.data_ = SmallBlock_data(blocks')
          /\ blocks'.data_ \notin
               SmallBlock_data(that') .. (SmallBlock_data(that') + kSize - 1)]_vars

C29_Witness ==
  /\ sut = "bytefill"
  /\ last.op = "Blocks"
  /\ blocks.num_blocks_ > 0
  /\ blocks.block_.kind = "SmallBlock"
  /\ blocks.block_.fill # 0
  /\ blocks.at = MovedAddr
  /\ that.at = BlocksAddr
  /\ that.data_ = SmallBlock_data(that)

\* An iterator over blocks between begin() and end(), given by its
\* block_index_complement_, and the index of the block it stands at.
InRange(b, c) == c \in 0..Blocks_size(b)
IndexOf(b, c) == Blocks_size(b) - c

\* C27: for 0 <= n < N, blocks[n], at(n) and *(begin() + n) give the block
\* with block_index_complement N - n; front() gives N and back() gives 1;
\* end() is 0 and begin() + N == end(); the difference and the comparisons of
\* two iterators are those of their indices; the block of complement 1, and no
\* other, takes its size from last_block_size_.
C27_IndexingAgrees ==
  [][(sut = "bytefill" /\ InRange(blocks, iter)) =>
       LET N == Blocks_size(blocks)
           n == last'.arg
       IN  /\ (last'.op \in {"operator[]", "at", "*(begin()+n)"} /\ n < N) =>
                /\ last'.err = "none"
                /\ ref' = BlockRef(blocks, N - n)
                /\ BlockRef_size(blocks, ref'.block_index_complement_)
                     = IF n = N - 1 THEN blocks.last_block_size_
                       ELSE blocks.non_last_block_size_
           /\ (last'.op = "front" /\ N > 0) =>
                last'.err = "none" /\ ref' = BlockRef(blocks, N)
           /\ (last'.op = "back" /\ N > 0) =>
                last'.err = "none" /\ ref' = BlockRef(blocks, 1)
           /\ (last'.op = "operator+=" /\ iter = begin(blocks) /\ n = N) =>
                /\ last'.err = "none"
                /\ end(blocks) = 0
                /\ operator_eq(iter', end(blocks))
           /\ last'.op = "compare" =>
                /\ cmp'.diff = IndexOf(blocks, iter) - cmp'.with
                /\ cmp'.eq <=> IndexOf(blocks, iter) = cmp'.with
                /\ cmp'.less <=> IndexOf(blocks, iter) < cmp'.with]_vars

C27_Witness ==
  /\ sut = "bytefill"
  /\ last.op = "operator[]"
  /\ last.err = "none"
  /\ last.arg = 1
  /\ blocks.num_blocks_ = 3
  /\ ref = BlockRef(blocks, 2)

\* C28: from an iterator between begin() and end(), a move passes its
\* assertion exactly if it ends between begin() and end(); one that passes
\* moves the index by n for += and by -n for -=, whatever the sign of n, and
\* is undone by the opposite move; ++ and * pass exactly if the iterator is
\* not end(), -- exactly if it is not begin().
C28_IteratorArithmetic ==
  [][(sut = "bytefill" /\ InRange(blocks, iter)) =>
       LET N == Blocks_size(blocks)
           n == last'.arg
           passed == last'.err = "none"
           back(m) == [c |-> iter, assert |-> "passed"] \in m /\ Cardinality(m) = 1
       IN  /\ last'.op = "operator+=" =>
                /\ passed <=> (iter - n) \in 0..N
                /\ passed => /\ iter' = iter - n
                             /\ IndexOf(blocks, iter') = IndexOf(blocks, iter) + n
                             /\ back(operator_minus_eq(blocks, iter', n))
           /\ last'.op = "operator-=" =>
                /\ passed <=> (iter + n) \in 0..N
                /\ passed => /\ iter' = iter + n
                             /\ IndexOf(blocks, iter') = IndexOf(blocks, iter) - n
                             /\ back(operator_plus_eq(blocks, iter', n))
           /\ last'.op = "operator++" =>
                /\ passed <=> iter # end(blocks)
                /\ passed => /\ iter' = iter - 1
                             /\ back(operator_dec(blocks, iter'))
           /\ last'.op = "operator--" =>
                /\ passed <=> iter # begin(blocks)
                /\ passed => /\ iter' = iter + 1
                             /\ back(operator_inc(blocks, iter'))
           /\ last'.op = "operator*" => (passed <=> iter # end(blocks))
           /\ (last'.op \in {"operator+=", "operator-=", "operator++",
                             "operator--"} /\ passed) => InRange(blocks', iter')]_vars

C28_Witness ==
  /\ sut = "bytefill"
  /\ last.op = "operator+="
  /\ last.arg = 0 - 2
  /\ last.err = "none"
  /\ blocks.num_blocks_ = 3
  /\ iter = 3

----------------------------------------------------------------------------
(* The claim about the invariants of an open PositionShiftingReader.       *)

\* The buffer of p is the buffer of the inner reader s seen by reference, at
\* positions shifted by base_pos.
SharesBuffer(p, s) ==
  /\ p.limit = s.limit
  /\ p.start >= s.cursor
  /\ p.limit_pos = s.limit_pos + p.base_pos

\* C30: whenever the PositionShiftingReader is open, after construction and
\* after every operation, failed or not, limit() = inner.limit(),
\* start() >= inner.cursor() and limit_pos() = inner.limit_pos() + base_pos.
C30_SharesBufferWhileOpen ==
  (sut = "reader" /\ psr.open) => SharesBuffer(psr, src)

\* The same of the open readers that did not fail with overflow.
C30_SharesBufferUnlessOverflow ==
  (sut = "reader" /\ psr.open /\ psr.status.code # "overflow") =>
    SharesBuffer(psr, src)

----------------------------------------------------------------------------
(* The claims about the positions of NullBackwardWriter and about a        *)
(* Truncate beyond pos().                                                  *)

\* The length of the buffer window, from limit() to start()
BW_buffer_size(w) == w.start - w.limit

C32_TruncateBeyondPosRefused ==
  /\ [][(sut = "writer" /\ ok(nbw) /\ last'.op = "Truncate"
           /\ last'.arg > BW_pos(nbw)) =>
          /\ ~last'.ret
          /\ ok(nbw')
          /\ nbw' = nbw
          /\ buffer_' = buffer_
          /\ run' = run]_vars
  /\ [][(sut = "writer" /\ last.op = "Truncate" /\ ~last.ret /\ ok(nbw)
           /\ last.arg > BW_pos(nbw)
           /\ last'.op \in WriteOps \cup {"Push"}
           /\ last'.arg <= PosMax - BW_pos(nbw)) =>
          last'.ret /\ ok(nbw')]_vars

C32_Witness ==
  /\ sut = "writer"
  /\ last.op = "Truncate"
  /\ ~last.ret
  /\ ok(nbw)
  /\ last.arg > BW_pos(nbw)
  /\ BW_pos(nbw) > nbw.start_pos
  /\ nbw.start_pos > 0
  /\ BW_available(nbw) > 0

====
